---- MODULE Spec2Model ----
(***************************************************************************)
(* Transaction ingestion, staging, reconciliation and commit pipeline of   *)
(* the budget tracker (server/bt_app), with the rule matcher of            *)
(* services/mapping_service.py.                                            *)
(*                                                                         *)
(* Texts are sequences of one-character strings.  Amounts are integers     *)
(* (cents).  Dates are small naturals; NoDate stands for None.             *)
(***************************************************************************)
EXTENDS Integers, Sequences, FiniteSets, TLC

VARIABLES
    ledger,      \* committed rows of table transactions, in insertion (id) order
    staged,      \* committed rows of table staging_transactions, in id order
    accounts,    \* table accounts: plaid_account_id -> [source, enabled]
    nImports,    \* number of rows of table plaid_imports
    itemCursor,  \* institution_items.next_cursor of the one item, as persisted
    rules,       \* table merchant_rules, in insertion (id) order
    lastCommit,  \* what the latest commit_import call was given and returned
    sess,        \* the sync session in progress (stepwise specification)
    procs,       \* the two concurrent commit_import calls (concurrent specification)
    probe,       \* input and output of the function a specification applies
    lastImport,  \* what the latest import call was given and returned
    call         \* the _plaid_with_retry call in progress (retry specification)

vars == <<ledger, staged, accounts, nImports, itemCursor, rules, lastCommit,
          sess, procs, probe, lastImport, call>>

\* ------------------------------------------------------------------ bounds

MaxImports == 2
MaxStaged == 2
MaxRules == 2
MaxPages == 2

\* ------------------------------------------------------------------ values

NoDate == 0
NoCat == 0
NoId == "none"
NoText == <<"<None>">>
EmptyText == <<>>

Abs(x) == IF x < 0 THEN -x ELSE x

Range(s) == {s[i] : i \in 1..Len(s)}

\* ------------------------------------------------------------------ text

\* str.lower() and str.upper() over the letters the names are written with
Lower(c) ==
    CASE c = "A" -> "a"
      [] c = "C" -> "c"
      [] c = "D" -> "d"
      [] c = "E" -> "e"
      [] c = "H" -> "h"
      [] c = "I" -> "i"
      [] c = "K" -> "k"
      [] c = "M" -> "m"
      [] c = "N" -> "n"
      [] c = "O" -> "o"
      [] c = "P" -> "p"
      [] c = "R" -> "r"
      [] c = "T" -> "t"
      [] c = "U" -> "u"
      [] c = "V" -> "v"
      [] c = "X" -> "x"
      [] c = "Y" -> "y"
      [] OTHER -> c

LowerText(t) == [i \in 1..Len(t) |-> Lower(t[i])]

UpperChar(c) ==
    CASE c = "a" -> "A"
      [] c = "c" -> "C"
      [] c = "d" -> "D"
      [] c = "e" -> "E"
      [] c = "h" -> "H"
      [] c = "i" -> "I"
      [] c = "k" -> "K"
      [] c = "m" -> "M"
      [] c = "n" -> "N"
      [] c = "o" -> "O"
      [] c = "p" -> "P"
      [] c = "r" -> "R"
      [] c = "t" -> "T"
      [] c = "u" -> "U"
      [] c = "v" -> "V"
      [] c = "x" -> "X"
      [] c = "y" -> "Y"
      [] OTHER -> c

UpperText(t) == [i \in 1..Len(t) |-> UpperChar(t[i])]

IsSpace(c) == c = " "
IsDigit(c) == c \in {"0", "1", "2", "3", "4", "5", "6", "7", "8", "9"}
IsAsciiLower(c) ==
    c \in {"a", "c", "d", "e", "h", "i", "k", "m", "n", "o", "p", "r", "t", "u", "v", "x", "y"}
\* \w of the re module: letters, digits and the underscore
IsWordChar(c) == IsAsciiLower(c) \/ IsAsciiLower(Lower(c)) \/ IsDigit(c) \/ c = "_"

\* t contains p as a contiguous subsequence (Python's "in", SQL's LIKE %p%)
Contains(t, p) ==
    \E i \in 0..(Len(t) - Len(p)) : SubSeq(t, i + 1, i + Len(p)) = p

StartsWith(t, p) == Len(p) <= Len(t) /\ SubSeq(t, 1, Len(p)) = p

\* re.sub(r'\*+', ' ', t): every maximal run of asterisks becomes one space
RECURSIVE SubStars(_)
SubStars(t) ==
    IF t = <<>> THEN <<>>
    ELSE IF Head(t) = "*"
         THEN IF Len(t) > 1 /\ t[2] = "*" THEN SubStars(Tail(t))
              ELSE <<" ">> \o SubStars(Tail(t))
         ELSE <<Head(t)>> \o SubStars(Tail(t))

\* re.sub(r'#\d+', ' ', t): a hash sign with the digits after it becomes one space
RECURSIVE DropDigits(_)
DropDigits(t) == IF t # <<>> /\ IsDigit(Head(t)) THEN DropDigits(Tail(t)) ELSE t

RECURSIVE SubRefs(_)
SubRefs(t) ==
    IF t = <<>> THEN <<>>
    ELSE IF Head(t) = "#" /\ Len(t) > 1 /\ IsDigit(t[2])
         THEN <<" ">> \o SubRefs(DropDigits(Tail(t)))
         ELSE <<Head(t)>> \o SubRefs(Tail(t))

\* re.sub(r'[^\w\s]', ' ', t)
SubPunct(t) ==
    [i \in 1..Len(t) |-> IF IsWordChar(t[i]) \/ IsSpace(t[i]) THEN t[i] ELSE " "]

RECURSIVE RStrip(_)
RStrip(t) ==
    IF t # <<>> /\ IsSpace(t[Len(t)]) THEN RStrip(SubSeq(t, 1, Len(t) - 1)) ELSE t

RECURSIVE LStrip(_)
LStrip(t) == IF t # <<>> /\ IsSpace(Head(t)) THEN LStrip(Tail(t)) ELSE t

RECURSIVE RDropDigits(_)
RDropDigits(t) ==
    IF t # <<>> /\ IsDigit(t[Len(t)]) THEN RDropDigits(SubSeq(t, 1, Len(t) - 1)) ELSE t

\* re.sub(r'\s+\d+\s*$', '', t): a final number, with the blanks around it
SubTrailingDigits(t) ==
    LET r == RStrip(t)
        d == RDropDigits(r)
    IN  IF d # r /\ d # <<>> /\ IsSpace(d[Len(d)]) THEN RStrip(d) ELSE t

\* re.sub(r'\s+[a-z]{2}\s*$', '', t): a final two-letter code, with the blanks
\* around it
SubTrailingCode(t) ==
    LET r == RStrip(t)
        n == Len(r)
    IN  IF n >= 3 /\ IsAsciiLower(r[n]) /\ IsAsciiLower(r[n - 1]) /\ IsSpace(r[n - 2])
        THEN RStrip(SubSeq(r, 1, n - 2))
        ELSE t

\* re.sub(r'\s+', ' ', t).strip()
RECURSIVE Collapse(_)
Collapse(t) ==
    IF t = <<>> THEN <<>>
    ELSE IF IsSpace(Head(t)) /\ Len(t) > 1 /\ IsSpace(t[2]) THEN Collapse(Tail(t))
         ELSE <<Head(t)>> \o Collapse(Tail(t))

CollapseStrip(t) == RStrip(LStrip(Collapse(t)))

\* unicodedata.normalize('NFD', t) with the combining marks dropped: the one
\* accented letter of the alphabet loses its accent
StripAccents(t) == [i \in 1..Len(t) |-> IF t[i] = "é" THEN "e" ELSE t[i]]

\* re.sub(r'\bkw\b', ' ', t) for a keyword kw that starts and ends with a word
\* character: every occurrence between word boundaries becomes one space
RECURSIVE SubKeywordFrom(_, _, _)
SubKeywordFrom(t, kw, i) ==
    IF i > Len(t) THEN <<>>
    ELSE IF /\ i + Len(kw) - 1 <= Len(t)
            /\ SubSeq(t, i, i + Len(kw) - 1) = kw
            /\ (i = 1 \/ ~IsWordChar(t[i - 1]))
            /\ (i + Len(kw) > Len(t) \/ ~IsWordChar(t[i + Len(kw)]))
         THEN <<" ">> \o SubKeywordFrom(t, kw, i + Len(kw))
         ELSE <<t[i]>> \o SubKeywordFrom(t, kw, i + 1)

SubKeyword(t, kw) == SubKeywordFrom(t, kw, 1)

KwPayment == <<"p","a","y","m","e","n","t">>
KwThankYou == <<"t","h","a","n","k"," ","y","o","u">>

\* The removal pipeline shared by normalize_merchant and normalize_description.
\* Of patterns_to_remove, the date and four-digit patterns and the keywords
\* merci, pos, debit, credit, transfer, virement and interac are found in no
\* name the records carry and are left out.
StripNoise(t) ==
    CollapseStrip(SubTrailingCode(SubTrailingDigits(SubPunct(
        SubKeyword(SubKeyword(SubRefs(SubStars(t)), KwPayment), KwThankYou)))))

\* MappingService.normalize_description
normalize_description(description_raw) ==
    IF description_raw \in {NoText, EmptyText} THEN NoText
    ELSE LET text == StripNoise(StripAccents(LowerText(description_raw)))
         IN  IF text = <<>> THEN NoText ELSE text

CanadianTire == <<"c","a","n","a","d","i","a","n"," ","t","i","r","e">>

\* MappingService._normalize_merchant_variants: the first pattern found in the
\* upper-cased text gives the canonical name.  Over the alphabet of RawNames
\* only (CANADIAN TIRE|CDN TIRE|CT ) can be found.
normalize_merchant_variants(text) ==
    IF Contains(UpperText(text), <<"C", "T", " ">>) THEN CanadianTire ELSE text

\* MappingService.normalize_merchant
normalize_merchant(merchant_raw, description_raw) ==
    LET raw == IF merchant_raw \in {NoText, EmptyText} THEN description_raw
               ELSE merchant_raw
    IN  IF raw \in {NoText, EmptyText} THEN NoText
        ELSE LET text == StripNoise(
                     normalize_merchant_variants(StripAccents(LowerText(raw))))
             IN  IF text = <<>> THEN NoText ELSE text

\* ------------------------------------------------------------------ rules

\* re.search(pattern, text) for the patterns modelled: a pattern with an
\* unclosed "[" or a backslash at its end does not compile (re.error); "."
\* matches any character; a backslash and d match a digit, a backslash and D a
\* character that is no digit; every other character matches itself.
RegexCompiles(pattern) ==
    /\ \A i \in 1..Len(pattern) :
          pattern[i] = "[" => \E j \in (i + 1)..Len(pattern) : pattern[j] = "]"
    /\ (pattern # <<>> /\ pattern[Len(pattern)] = "\\")
          => (Len(pattern) > 1 /\ pattern[Len(pattern) - 1] = "\\")

RegexMatchesAt(pattern, text, k) ==
    LET Escaped(e, c) == CASE e = "d" -> IsDigit(c)
                           [] e = "D" -> ~IsDigit(c)
                           [] OTHER -> e = c
        RECURSIVE MatchFrom(_, _)
        MatchFrom(i, at) ==
            IF i > Len(pattern) THEN TRUE
            ELSE IF at > Len(text) THEN FALSE
            ELSE IF pattern[i] = "\\" /\ i < Len(pattern)
                 THEN Escaped(pattern[i + 1], text[at]) /\ MatchFrom(i + 2, at + 1)
                 ELSE (pattern[i] = "." \/ pattern[i] = text[at]) /\ MatchFrom(i + 1, at + 1)
    IN  MatchFrom(1, k + 1)

RegexSearch(pattern, text) ==
    \E k \in 0..Len(text) : RegexMatchesAt(pattern, text, k)

\* MappingService._matches_rule_with_fields.matches_pattern
matches_pattern(text, pattern, rule_type) ==
    IF text \in {NoText, EmptyText} \/ pattern \in {NoText, EmptyText} THEN FALSE
    ELSE LET text_lower == LowerText(text)
             pattern_lower == LowerText(pattern)
         IN  CASE rule_type = "EXACT" -> text_lower = pattern_lower
               [] rule_type = "CONTAINS" -> Contains(text_lower, pattern_lower)
               [] rule_type = "REGEX" ->
                    IF RegexCompiles(pattern_lower)
                    THEN RegexSearch(pattern_lower, text_lower)
                    ELSE FALSE
               [] OTHER -> FALSE

\* MappingService._matches_rule_with_fields
matches_rule_with_fields(merchant_norm, description_norm, rule) ==
    CASE rule.fields = "MERCHANT" ->
            matches_pattern(merchant_norm, rule.pattern, rule.rule_type)
      [] rule.fields = "DESCRIPTION" ->
            matches_pattern(description_norm, rule.desc_pattern, rule.rule_type)
      [] rule.fields = "PAIR" ->
            /\ matches_pattern(merchant_norm, rule.pattern, rule.rule_type)
            /\ matches_pattern(description_norm, rule.desc_pattern, rule.rule_type)
      [] OTHER -> matches_pattern(merchant_norm, rule.pattern, rule.rule_type)

B2I(b) == IF b THEN 1 ELSE 0

\* The ORDER BY of apply_rules_to_transaction: three comparisons, each sorted
\* ascending (false before true), then priority descending.
RuleSortKey(rule) ==
    <<B2I(rule.rule_type = "EXACT"), B2I(rule.rule_type = "CONTAINS"),
      B2I(rule.rule_type = "REGEX"), -rule.priority>>

KeyLess(a, b) ==
    \E i \in 1..Len(a) : a[i] < b[i] /\ \A j \in 1..(i - 1) : a[j] = b[j]

\* The rows of a query in the order the engine returns them.  Where the ORDER BY
\* leaves two rows tied the engine is free: tie is "asc" (by id) or "desc".
RuleBefore(rs, i, j, tie) ==
    \/ KeyLess(RuleSortKey(rs[i]), RuleSortKey(rs[j]))
    \/ /\ RuleSortKey(rs[i]) = RuleSortKey(rs[j])
       /\ IF tie = "asc" THEN i < j ELSE i > j

\* MappingService.apply_rules_to_transaction: <<category_id, subcategory_id>> of
\* the first rule, in query order, that matches.
apply_rules_to_transaction(merchant_norm, description_norm, rs, tie) ==
    LET hits == {i \in 1..Len(rs) :
                    matches_rule_with_fields(merchant_norm, description_norm, rs[i])}
    IN  IF merchant_norm \in {NoText, EmptyText} \/ hits = {} THEN <<NoCat, NoCat>>
        ELSE LET first == CHOOSE i \in hits :
                              \A j \in hits \ {i} : RuleBefore(rs, i, j, tie)
             IN  <<rs[first].category_id, rs[first].subcategory_id>>

EngineTies == {"asc", "desc"}

\* ------------------------------------------------------------------ inputs

NameCx == <<"c", "x">>
NameCxStar == <<"C", "x", "*">>
NameCtX == <<"c", "t", " ", "x">>

Raw(id, plink, pending, acct, d, auth, name, amount, pf) ==
    [transaction_id |-> id, pending_transaction_id |-> plink, pending |-> pending,
     account_id |-> acct, date |-> d, authorized_date |-> auth, name |-> name,
     merchant_name |-> EmptyText, amount |-> amount, pf_primary |-> pf]

\* A charge while pending, and the posted record that replaces it (the bank
\* rewrote the description; purchase date 1, posted on day 2).
RawPending == Raw("P1", NoId, TRUE, "A1", 1, NoDate, NameCx, 42, "NONE")
RawPosted == Raw("T2", "P1", FALSE, "A1", 2, 1, NameCxStar, 42, "NONE")
\* An inflow on an account not seen before, posted on day 2, and an internal
\* transfer.
RawInflow == Raw("T3", NoId, FALSE, "A2", 2, NoDate, NameCtX, -42, "NONE")
RawTransfer == Raw("T4", NoId, FALSE, "A1", 1, NoDate, NameCx, 0, "TRANSFER")

RawRecords == {RawPending, RawPosted, RawInflow, RawTransfer}

\* A charge on an account _ensure_account creates ("Account " + last four
\* characters of the id: get_source_from_account_name gives "Unknown")
RawOtherAccount == Raw("T5", NoId, FALSE, "A2", 1, NoDate, NameCx, 42, "NONE")

\* A payment to the card, as the statement prints it
NamePaymentReceived ==
    <<"P","a","y","m","e","n","t"," ","R","e","c","e","i","v","e","d"," ","-"," ",
      "T","h","a","n","k"," ","Y","o","u">>
RawPaymentReceived == Raw("T6", NoId, FALSE, "A1", 1, NoDate, NamePaymentReceived, -42, "NONE")

RECURSIVE SeqsUpTo(_, _)
SeqsUpTo(S, n) ==
    IF n = 0 THEN {<<>>}
    ELSE LET shorter == SeqsUpTo(S, n - 1)
         IN  shorter \cup {Append(q, x) : q \in {r \in shorter : Len(r) = n - 1}, x \in S}

Statuses == {"needs_category", "ready", "approved", "excluded", "duplicate", "superseded"}

DEFAULT_EXCLUSION_CATEGORIES == {"TRANSFER", "LOAN_PAYMENTS", "BANK_FEES_ATM_FEES"}

\* ------------------------------------------------------------------ staging

\* _to_date(tx_data.get("date") or tx_data.get("authorized_date"))
TxDate(tx) == IF tx.date # NoDate THEN tx.date ELSE tx.authorized_date

\* auth_date or posted_date
PurchaseDate(tx) == IF tx.authorized_date # NoDate THEN tx.authorized_date ELSE TxDate(tx)

\* _within_window
within_window(d, start, end) ==
    /\ ~((start # NoDate \/ end # NoDate) /\ d = NoDate)
    /\ ~(start # NoDate /\ d < start)
    /\ ~(end # NoDate /\ d > end)

\* hashlib.sha256(f"{account.id}_{tx_date}_{merchant_name}_{name}_{amount}"):
\* the digest is modelled by the tuple it is computed from
HashKey(tx) == <<tx.account_id, TxDate(tx), tx.merchant_name, tx.name, tx.amount>>

\* "PAYMENT RECEIVED - THANK YOU"
PAYMENT_RECEIVED ==
    <<"P","A","Y","M","E","N","T"," ","R","E","C","E","I","V","E","D"," ","-"," ",
      "T","H","A","N","K"," ","Y","O","U">>

\* PlaidImportService._should_exclude (the records carry no detailed category)
should_exclude_never(tx) == FALSE
should_exclude(tx) ==
    \/ tx.pf_primary \in DEFAULT_EXCLUSION_CATEGORIES
    \/ Contains(UpperText(tx.name), PAYMENT_RECEIVED)

\* PlaidImportService._get_exclude_reason
get_exclude_reason(tx) ==
    IF tx.pf_primary \in DEFAULT_EXCLUSION_CATEGORIES THEN "category" ELSE "custom_rule"

\* PlaidImportService._determine_status, against the rows of transactions the
\* query sees
determine_status(tx, txns) ==
    IF should_exclude(tx) THEN "excluded"
    ELSE IF ~tx.pending /\ tx.pending_transaction_id # NoId THEN "ready"
    ELSE LET tx_date == TxDate(tx)
             amount == Abs(tx.amount)
             description_norm == normalize_description(tx.name)
         IN  IF \E i \in 1..Len(txns) :
                    /\ txns[i].posted_date = tx_date
                    /\ txns[i].amount = amount
                    /\ txns[i].description_norm = description_norm
             THEN "duplicate"
             ELSE "needs_category"

\* get_source_from_account_name(account.name), with the caller's fallback for
\* "Unknown" and for a missing account
SourceOf(accts, acct, fallback) ==
    IF acct \in DOMAIN accts /\ accts[acct].source # "Unknown"
    THEN accts[acct].source
    ELSE fallback

\* .order_by(Transaction.posted_date.desc()).first() over the rows at indices I:
\* 0 when I is empty
Newest(txns, I, tie) ==
    IF I = {} THEN 0
    ELSE CHOOSE i \in I :
            \A j \in I \ {i} :
                \/ txns[i].posted_date > txns[j].posted_date
                \/ /\ txns[i].posted_date = txns[j].posted_date
                   /\ IF tie = "asc" THEN i < j ELSE i > j

Categorized(txns) == {i \in 1..Len(txns) : txns[i].category_id # NoCat}

\* text.split(): the words of a normalized text
RECURSIVE Words(_)
Words(t) ==
    IF t = <<>> THEN <<>>
    ELSE LET k == IF \E i \in 1..Len(t) : IsSpace(t[i])
                  THEN CHOOSE i \in 1..Len(t) :
                          IsSpace(t[i]) /\ \A j \in 1..(i - 1) : ~IsSpace(t[j])
                  ELSE Len(t) + 1
         IN  IF k = 1 THEN Words(Tail(t))
             ELSE <<SubSeq(t, 1, k - 1)>> \o Words(SubSeq(t, k + 1, Len(t)))

\* The words _apply_mapping tries one by one: six characters or more (none of
\* the common words can be spelled over the alphabet)
DistinctiveWords(merchant_norm) ==
    SelectSeq(Words(merchant_norm), LAMBDA w : Len(w) >= 6)

\* The history search of _apply_mapping on normalized text (steps after the rule
\* engine): the index of the row found, 0 when none
RECURSIVE FirstWordHit(_, _, _, _)
FirstWordHit(ws, txns, C, tie) ==
    IF ws = <<>> THEN 0
    ELSE LET hit == Newest(txns, {i \in C : txns[i].merchant_norm # NoText
                                       /\ Contains(txns[i].merchant_norm, Head(ws))}, tie)
         IN  IF hit # 0 THEN hit ELSE FirstWordHit(Tail(ws), txns, C, tie)

NormalizedHistory(merchant_norm, txns, tie) ==
    LET C == Categorized(txns)
        exact == Newest(txns, {i \in C : txns[i].merchant_norm = merchant_norm}, tie)
        like1 == Newest(txns, {i \in C : txns[i].merchant_norm # NoText
                                  /\ Contains(txns[i].merchant_norm, merchant_norm)}, tie)
        like2 == Newest(txns, {i \in C : txns[i].merchant_norm # NoText
                                  /\ StartsWith(txns[i].merchant_norm, merchant_norm)}, tie)
        word == IF Len(Words(merchant_norm)) > 1
                THEN FirstWordHit(DistinctiveWords(merchant_norm), txns, C, tie)
                ELSE 0
        rev == Newest(txns, {i \in C : txns[i].merchant_norm # NoText
                                /\ Contains(merchant_norm, txns[i].merchant_norm)}, tie)
    IN  IF exact # 0 THEN exact
        ELSE IF merchant_norm = NoText THEN 0
        ELSE IF like1 # 0 THEN like1
        ELSE IF like2 # 0 THEN like2
        ELSE IF word # 0 THEN word
        ELSE rev

\* PlaidImportService._apply_mapping: the category and subcategory found for a
\* staged row with this account and name, NoCat when none
MappedCategory(account_id, name, txns, accts, rs, tie) ==
    LET source == SourceOf(accts, account_id, "Amex")
        C == Categorized(txns)
        raw == IF name = NoText THEN EmptyText ELSE name
        h1 == Newest(txns, {i \in C : /\ txns[i].source = source
                                      /\ txns[i].merchant_raw = raw
                                      /\ txns[i].description_raw = raw}, tie)
        h2 == Newest(txns, {i \in C : /\ txns[i].source = source
                                      /\ txns[i].description_raw = raw}, tie)
        h3 == Newest(txns, {i \in C : /\ txns[i].source = source
                                      /\ txns[i].merchant_raw = raw}, tie)
        Normalized(merchant_norm, description_norm) ==
            LET Found(byRule, h5) ==
                    IF byRule[1] # NoCat THEN byRule
                    ELSE IF h5 # 0 THEN <<txns[h5].category_id, txns[h5].subcategory_id>>
                    ELSE <<NoCat, NoCat>>
            IN  Found(apply_rules_to_transaction(merchant_norm, description_norm, rs, tie),
                      NormalizedHistory(merchant_norm, txns, tie))
        Hist(h) == <<txns[h].category_id, txns[h].subcategory_id>>
    IN  IF raw # EmptyText /\ h1 # 0 THEN Hist(h1)
        ELSE IF raw # EmptyText /\ h2 # 0 THEN Hist(h2)
        ELSE IF raw # EmptyText /\ h3 # 0 THEN Hist(h3)
        ELSE Normalized(normalize_merchant(raw, raw), normalize_description(raw))

\* _apply_mapping(staging_tx): a category found is stored and makes the row ready
apply_mapping(row, txns, accts, rs, tie) ==
    LET Store(c) ==
            IF c[1] # NoCat
            THEN [row EXCEPT !.suggested_category_id = c[1],
                             !.suggested_subcategory_id = c[2], !.status = "ready"]
            ELSE row
    IN  Store(MappedCategory(row.account_id, row.name, txns, accts, rs, tie))

\* The StagingTransaction built for one fetched record
StagingRow(import_id, tx, status) ==
    [import_id |-> import_id,
     plaid_transaction_id |-> tx.transaction_id,
     plaid_pending_transaction_id |-> tx.pending_transaction_id,
     account_id |-> tx.account_id,
     date |-> PurchaseDate(tx),
     authorized_date |-> tx.authorized_date,
     name |-> tx.name,
     merchant_name |-> tx.merchant_name,
     amount |-> tx.amount,
     suggested_category_id |-> NoCat,
     suggested_subcategory_id |-> NoCat,
     status |-> status,
     exclude_reason |-> IF status = "excluded" THEN get_exclude_reason(tx) ELSE "NONE",
     hash_key |-> HashKey(tx),
     raw_json |-> tx]

\* The account _ensure_account creates for an id it has not seen
NewAccount == [source |-> "Unknown", enabled |-> TRUE]

ZeroSummary ==
    [total |-> 0, ready |-> 0, needs_category |-> 0, excluded |-> 0,
     duplicate |-> 0, superseded |-> 0]

\* The loop of _stage_transactions.  st.db holds the staging rows the database
\* has (queries see these), st.new the rows added to the session and not yet
\* flushed (SessionLocal has autoflush off), st.accts the accounts, st.summary
\* the counts.  _ensure_account flushes when it creates an account.
RECURSIVE StageLoop(_, _, _)
StageLoop(txs, st, cx) ==
    IF txs = <<>> THEN st
    ELSE
      LET tx == Head(txs)
          rest == Tail(txs)
      IN
      IF cx.account_filter # {} /\ tx.account_id \notin cx.account_filter
      THEN StageLoop(rest, st, cx)
      ELSE
        LET known == tx.account_id \in DOMAIN st.accts
            accts1 == IF known THEN st.accts
                      ELSE [a \in DOMAIN st.accts \cup {tx.account_id} |->
                              IF a = tx.account_id THEN NewAccount ELSE st.accts[a]]
            st1 == IF known THEN st
                   ELSE [st EXCEPT !.accts = accts1, !.db = st.db \o st.new, !.new = <<>>]
            purchase_date == PurchaseDate(tx)
            Mapped(row0) ==
                IF row0.status \notin {"excluded", "superseded"}
                THEN apply_mapping(row0, cx.txns, st1.accts, cx.rules, cx.tie)
                ELSE row0
            Staged(status) ==
                [st1 EXCEPT !.new = Append(st1.new, Mapped(StagingRow(cx.import_id, tx, status))),
                            !.summary.total = @ + 1,
                            !.summary[status] = @ + 1]
        IN
        IF ~st1.accts[tx.account_id].enabled THEN StageLoop(rest, st1, cx)
        ELSE IF purchase_date = NoDate THEN StageLoop(rest, st1, cx)
        ELSE IF ~within_window(purchase_date, cx.start_date, cx.end_date)
             THEN StageLoop(rest, st1, cx)
        ELSE StageLoop(rest, Staged(determine_status(tx, cx.txns)), cx)

\* PlaidImportService._reconcile_pending_posted over the rows the database has:
\* for each row of this import with a pending link, the first row whose
\* plaid_transaction_id is that link becomes superseded.  (.first() has no
\* ORDER BY: the engine picks by tie.)
PendingOf(db, link, tie) ==
    LET M == {i \in 1..Len(db) : db[i].plaid_transaction_id = link}
    IN  IF M = {} THEN 0
        ELSE CHOOSE i \in M : \A j \in M : IF tie = "asc" THEN i <= j ELSE i >= j

reconcile_pending_posted(db, import_id, tie) ==
    LET posted == {i \in 1..Len(db) :
                      /\ db[i].import_id = import_id
                      /\ db[i].plaid_pending_transaction_id # NoId}
        hit == {PendingOf(db, db[i].plaid_pending_transaction_id, tie) : i \in posted}
    IN  [i \in 1..Len(db) |->
            IF i \in hit
            THEN [db[i] EXCEPT !.status = "superseded",
                               !.exclude_reason = "replaced_by_posted"]
            ELSE db[i]]

\* PlaidImportService._stage_transactions: the loop, the reconciliation, then
\* the flush.  Returns the staging table, the accounts and the summary.
stage_transactions(import_id, txs, account_filter, start_date, end_date, db, accts, txns, rs, tie) ==
    LET cx == [import_id |-> import_id, account_filter |-> account_filter,
               start_date |-> start_date, end_date |-> end_date,
               txns |-> txns, rules |-> rs, tie |-> tie]
        Flushed(st) ==
            [staged |-> reconcile_pending_posted(st.db, import_id, tie) \o st.new,
             accts |-> st.accts,
             summary |-> st.summary]
    IN  Flushed(StageLoop(txs, [db |-> db, new |-> <<>>, accts |-> accts,
                                summary |-> ZeroSummary], cx))

\* The soft delete of the rows a sync reports removed
RECURSIVE SoftDelete(_, _)
SoftDelete(txns, removed) ==
    IF removed = <<>> THEN txns
    ELSE LET M == {i \in 1..Len(txns) : txns[i].external_id = Head(removed)}
             k == IF M = {} THEN 0 ELSE CHOOSE i \in M : \A j \in M : i <= j
         IN  SoftDelete(IF k = 0 THEN txns ELSE [txns EXCEPT ![k].is_deleted = TRUE],
                        Tail(removed))

\* ------------------------------------------------------------------ commit

\* _safe_text: UTF-8 round trip and NFKC, which leave every text over the
\* alphabet as it is; None stays None
safe_text(t) == t

OrEmpty(t) == IF t = NoText THEN EmptyText ELSE t

\* The staging rows commit_import selects, in id order
CommitSelection(db, import_id, row_ids, statuses) ==
    LET commit_statuses == IF statuses = {} THEN {"ready", "approved"} ELSE statuses
        S == {i \in 1..Len(db) :
                /\ db[i].import_id = import_id
                /\ IF row_ids # {} THEN i \in row_ids
                   ELSE db[i].status \in commit_statuses}
        RECURSIVE Ordered(_)
        Ordered(I) == IF I = {} THEN <<>>
                      ELSE LET m == CHOOSE i \in I : \A j \in I : i <= j
                           IN  <<db[m]>> \o Ordered(I \ {m})
    IN  Ordered(S)

\* The two duplicate checks of commit_import against the rows the queries see
ExistingByIdNever(txns, stagedRow) == FALSE
ExistingById(txns, stagedRow) ==
    \E i \in 1..Len(txns) :
        txns[i].external_id = safe_text(stagedRow.plaid_transaction_id)

ExistingByContent(txns, stagedRow) ==
    LET description_norm == normalize_description(safe_text(OrEmpty(stagedRow.name)))
    IN  \E i \in 1..Len(txns) :
            /\ txns[i].posted_date = stagedRow.date
            /\ txns[i].amount = Abs(stagedRow.amount)
            /\ txns[i].description_norm = description_norm
            /\ txns[i].category_id = stagedRow.suggested_category_id

\* The sign convention of commit_import
TxnType(plaid_amount) == IF plaid_amount > 0 THEN "expense" ELSE "income"
AmountDbUnsigned(plaid_amount) == Abs(plaid_amount)
AmountDb(plaid_amount) == IF plaid_amount > 0 THEN -Abs(plaid_amount) ELSE Abs(plaid_amount)

\* The Transaction commit_import builds from a staging row
LedgerRow(stagedRow, import_id, accts) ==
    LET merchant_name_safe == safe_text(OrEmpty(stagedRow.merchant_name))
        name_safe == safe_text(OrEmpty(stagedRow.name))
    IN  [account_id |-> stagedRow.account_id,
         plaid_transaction_id |-> safe_text(stagedRow.plaid_transaction_id),
         external_id |-> safe_text(stagedRow.plaid_transaction_id),
         posted_date |-> stagedRow.date,
         amount |-> AmountDb(stagedRow.amount),
         merchant_raw |-> IF merchant_name_safe # EmptyText THEN merchant_name_safe
                          ELSE name_safe,
         description_raw |-> name_safe,
         merchant_norm |-> normalize_merchant(merchant_name_safe, name_safe),
         description_norm |-> normalize_description(name_safe),
         category_id |-> stagedRow.suggested_category_id,
         subcategory_id |-> stagedRow.suggested_subcategory_id,
         source |-> SourceOf(accts, stagedRow.account_id, "Plaid"),
         txn_type |-> TxnType(stagedRow.amount),
         import_id |-> import_id,
         hash_dedupe |-> safe_text(stagedRow.hash_key),
         is_deleted |-> FALSE]

\* The loop of commit_import over the selected rows.  txns are the rows the
\* queries see (the session does not flush before a query, so not the rows this
\* call added); run.added are the rows added to the session.  fault = k > 0: the
\* processing of the k-th row raises.
RECURSIVE CommitLoop(_, _, _, _, _, _)
CommitLoop(sel, k, fault, run, txns, cx) ==
    IF sel = <<>> THEN run
    ELSE IF fault = k THEN [run EXCEPT !.raised = TRUE]
    ELSE LET stagedRow == Head(sel)
         IN  IF ExistingById(txns, stagedRow) \/ ExistingByContent(txns, stagedRow)
             THEN CommitLoop(Tail(sel), k + 1, fault,
                             [run EXCEPT !.skipped_duplicates = @ + 1], txns, cx)
             ELSE CommitLoop(Tail(sel), k + 1, fault,
                             [run EXCEPT !.inserted = @ + 1,
                                         !.added = Append(@, LedgerRow(stagedRow, cx.import_id, cx.accts))],
                             txns, cx)

\* The unique constraints of table transactions: external_id,
\* plaid_transaction_id (NULLs do not collide), and
\* (account_id, posted_date, amount, hash_dedupe)
UniqueViolation(txns, row) ==
    \E i \in 1..Len(txns) :
        \/ row.external_id # NoId /\ txns[i].external_id = row.external_id
        \/ /\ row.plaid_transaction_id # NoId
           /\ txns[i].plaid_transaction_id = row.plaid_transaction_id
        \/ /\ txns[i].account_id = row.account_id
           /\ txns[i].posted_date = row.posted_date
           /\ txns[i].amount = row.amount
           /\ txns[i].hash_dedupe = row.hash_dedupe

\* The flush of db.commit(): the added rows are inserted one by one into the
\* table as the transaction sees it; the first violation raises IntegrityError.
RECURSIVE Flush(_, _)
Flush(txns, added) ==
    IF added = <<>> THEN [ok |-> TRUE, txns |-> txns]
    ELSE IF UniqueViolation(txns, Head(added)) THEN [ok |-> FALSE, txns |-> txns]
    ELSE Flush(Append(txns, Head(added)), Tail(added))

\* db.rollback() of the commit route (and the close of the request's session):
\* what the session holds beyond the committed rows is dropped
db_keep(committed, held) == held
db_rollback(committed, held) == committed

\* PlaidImportService.commit_import, called by the commit route: the ledger
\* after the call and what the call returned.  fault = number of rows + 1: the
\* final db.commit() raises for a reason of its own.  held is what the session
\* holds when the call ends: the rows it added, flushed or not, on top of the
\* committed ones.
commit_import(committed, db, accts, import_id, row_ids, statuses, fault) ==
    LET Ended(selected, run, fl) ==
            LET Returned(ok, held) ==
                    [ok |-> ok,
                     ledger |-> IF ok THEN fl.txns ELSE db_rollback(committed, held),
                     inserted |-> run.inserted,
                     skipped_duplicates |-> run.skipped_duplicates,
                     selected |-> selected]
            IN  Returned(~run.raised /\ fault # selected + 1 /\ fl.ok,
                         IF run.raised THEN committed \o run.added ELSE fl.txns)
        Committed(selected, run) == Ended(selected, run, Flush(committed, run.added))
        Selected(sel) ==
            Committed(Len(sel),
                      CommitLoop(sel, 1, fault,
                                 [inserted |-> 0, skipped_duplicates |-> 0,
                                  added |-> <<>>, raised |-> FALSE],
                                 committed, [import_id |-> import_id, accts |-> accts]))
    IN  Selected(CommitSelection(db, import_id, row_ids, statuses))

\* ------------------------------------------------------------------ state

RuleCx ==
    [rule_type |-> "CONTAINS", fields |-> "MERCHANT", pattern |-> NameCx,
     desc_pattern |-> NoText, category_id |-> 1, subcategory_id |-> NoCat,
     priority |-> 0]

NoArgs == <<0, {}, {}>>

\* No commit_import call since the last change made by another operation
NoCommit ==
    [called |-> FALSE, ok |-> FALSE, inserted |-> 0, skipped_duplicates |-> 0,
     partial |-> FALSE, args |-> NoArgs, again |-> FALSE, first |-> 0]

\* No sync session in progress; outcome, start and pages are those of the
\* session that ended last
NoSession ==
    [pc |-> "idle", outcome |-> "none", start |-> 0, next_cursor |-> 0,
     item_cursor |-> 0, tries |-> 0, pages |-> 0]
\* The two callers of commit_import, neither of them in a call
Procs == {1, 2}
IdleProc ==
    [pc |-> "idle", import_id |-> 0, sel |-> <<>>, added |-> <<>>,
     inserted |-> 0, skipped_duplicates |-> 0]
NoProcs == [p \in Procs |-> IdleProc]
NoProbe == [asked |-> FALSE, merchant_norm |-> NoText, result |-> <<NoCat, NoCat>>]

\* No import call yet
NoImport ==
    [called |-> FALSE, mode |-> "none", start_date |-> NoDate, end_date |-> NoDate,
     query_end |-> NoDate, fetched |-> <<>>, removed |-> <<>>, summary |-> ZeroSummary]

\* No _plaid_with_retry call in progress
NoCall ==
    [pc |-> "idle", i |-> 0, attempts |-> 0, results |-> <<>>, outcome |-> "none",
     plaid_error |-> "none"]

InitPipeline ==
    /\ ledger = <<>>
    /\ staged = <<>>
    /\ accounts = [a \in {"A1"} |-> [source |-> "Amex", enabled |-> TRUE]]
    /\ nImports = 0
    /\ itemCursor = 0
    /\ lastCommit = NoCommit

Init ==
    /\ InitPipeline
    /\ rules = <<RuleCx>>
    /\ sess = NoSession
    /\ procs = NoProcs
    /\ probe = NoProbe
    /\ lastImport = NoImport
    /\ call = NoCall

\* ------------------------------------------------------------------ operations

\* The windows a range-mode import is asked for.  Without an end date
\* _fetch_transactions_get raises (None + timedelta) before it fetches.
Windows == {<<1, 1>>, <<1, 2>>}
AccountFilters == {{}, {"A1"}}
RemovedLists == {<<>>, <<"P1">>}
ManualCategoryIds == {2}

Fetches == {txs \in SeqsUpTo(RawRecords, MaxStaged) : Len(staged) + Len(txs) <= MaxStaged}

\* grace_days of _fetch_transactions_get
GraceDays == 5

\* _fetch_transactions_get: the records the aggregator holds (held) whose posted
\* date lies between start_date and end_date plus the grace days, page by page
QueryEndExact(end_date) == end_date

QueryEnd(end_date) == end_date + GraceDays

fetch_transactions_get(held, start_date, end_date) ==
    SelectSeq(held, LAMBDA tx : start_date <= tx.date /\ tx.date <= QueryEnd(end_date))

\* What a caller that keeps the response of an import knows of it
ImportRecord(mode, start_date, end_date, query_end, fetched, removed, summary) ==
    [called |-> TRUE, mode |-> mode, start_date |-> start_date, end_date |-> end_date,
     query_end |-> query_end, fetched |-> fetched, removed |-> removed,
     summary |-> summary]

\* import_transactions(item_id, mode="get", start_date, end_date), as the import
\* route calls it in range mode: held is what the aggregator holds; keep says
\* that the caller keeps the response
ImportGet(held, w, tie, keep) ==
    /\ nImports < MaxImports
    /\ w[1] # NoDate /\ w[2] # NoDate
    /\ LET Stored(fetched, r) ==
                /\ staged' = r.staged
                /\ accounts' = r.accts
                /\ lastImport' = IF keep
                                 THEN ImportRecord("get", w[1], w[2], QueryEnd(w[2]),
                                                   fetched, <<>>, r.summary)
                                 ELSE lastImport
           Fetched(fetched) ==
                Stored(fetched,
                       stage_transactions(nImports + 1, fetched, {}, w[1], w[2],
                                          staged, accounts, ledger, rules, tie))
       IN  Fetched(fetch_transactions_get(held, w[1], w[2]))
    /\ nImports' = nImports + 1
    /\ lastCommit' = NoCommit
    /\ UNCHANGED <<ledger, itemCursor, rules, sess, procs, probe, call>>

\* import_transactions(item_id, mode="sync", account_ids=account_ids): txs is
\* added + modified and removed the removed ids of the delta the aggregator
\* returned after item.next_cursor
ImportSync(txs, removed, account_ids, tie, keep) ==
    /\ nImports < MaxImports
    /\ LET Stored(r) ==
                /\ staged' = r.staged
                /\ accounts' = r.accts
                /\ lastImport' = IF keep
                                 THEN ImportRecord("sync", NoDate, NoDate, NoDate,
                                                   txs, removed, r.summary)
                                 ELSE lastImport
       IN  Stored(stage_transactions(nImports + 1, txs, account_ids, NoDate, NoDate,
                                     staged, accounts, ledger, rules, tie))
    /\ ledger' = SoftDelete(ledger, removed)
    /\ itemCursor' = itemCursor + 1
    /\ nImports' = nImports + 1
    /\ lastCommit' = NoCommit
    /\ UNCHANGED <<rules, sess, procs, probe, call>>

\* import_transactions_sync(item_id, account_ids, start_date, end_date): the
\* whole delta is fetched, filtered by account and posted date, staged without
\* an account filter, and the removed rows are soft deleted
ImportTransactionsSync(txs, removed, account_ids, w, tie) ==
    /\ nImports < MaxImports
    /\ LET passes_filter(tx) ==
                /\ ~(account_ids # {} /\ tx.account_id \notin account_ids)
                /\ ~(w[1] # NoDate /\ TxDate(tx) # NoDate /\ TxDate(tx) < w[1])
                /\ ~(w[2] # NoDate /\ TxDate(tx) # NoDate /\ TxDate(tx) > w[2])
           Stored(fetched, r) ==
                /\ staged' = r.staged
                /\ accounts' = r.accts
                /\ lastImport' = ImportRecord("sync", w[1], w[2], NoDate, fetched, removed,
                                              r.summary)
           Filtered(fetched) ==
                Stored(fetched,
                       stage_transactions(nImports + 1, fetched, {}, w[1], w[2],
                                          staged, accounts, ledger, rules, tie))
       IN  Filtered(SelectSeq(txs, passes_filter))
    /\ ledger' = SoftDelete(ledger, removed)
    /\ itemCursor' = itemCursor + 1
    /\ nImports' = nImports + 1
    /\ lastCommit' = NoCommit
    /\ UNCHANGED <<rules, sess, procs, probe, call>>

\* import_multi (POST /import-multi) with the one item: in mode "sync" the
\* delta after item.next_cursor is staged and the cursor moved, otherwise the
\* date range is fetched; removed is what the delta reports removed
ImportMulti(mode, txs, removed, account_ids, w, tie) ==
    /\ nImports < MaxImports
    /\ mode # "sync" => (w[1] # NoDate /\ w[2] # NoDate)
    /\ LET Stored(fetched, r) ==
                /\ staged' = r.staged
                /\ accounts' = r.accts
                /\ lastImport' =
                      IF mode = "sync"
                      THEN ImportRecord(mode, w[1], w[2], NoDate, fetched, removed, r.summary)
                      ELSE ImportRecord(mode, w[1], w[2], QueryEnd(w[2]), fetched, <<>>,
                                        r.summary)
           Fetched(fetched) ==
                Stored(fetched,
                       stage_transactions(nImports + 1, fetched, account_ids, w[1], w[2],
                                          staged, accounts, ledger, rules, tie))
       IN  Fetched(IF mode = "sync" THEN txs ELSE fetch_transactions_get(txs, w[1], w[2]))
    /\ itemCursor' = IF mode = "sync" THEN itemCursor + 1 ELSE itemCursor
    /\ nImports' = nImports + 1
    /\ lastCommit' = NoCommit
    /\ UNCHANGED <<ledger, rules, sess, procs, probe, call>>

\* approve_transactions (POST /imports/{import_id}/approve)
ApproveRow(row) ==
    IF row.status = "excluded"
    THEN [row EXCEPT !.status = IF row.suggested_category_id # NoCat THEN "ready"
                                ELSE "needs_category",
                     !.exclude_reason = "NONE"]
    ELSE IF row.status \in {"needs_category", "ready"}
    THEN [row EXCEPT !.status = "approved"]
    ELSE row

Approve(import_id, row_ids) ==
    /\ staged' = [i \in 1..Len(staged) |->
                    IF i \in row_ids /\ staged[i].import_id = import_id
                    THEN ApproveRow(staged[i]) ELSE staged[i]]
    /\ staged' # staged
    /\ lastCommit' = NoCommit
    /\ UNCHANGED <<ledger, accounts, nImports, itemCursor, rules, sess, procs, probe,
                   lastImport, call>>

\* update_staging_category (PUT /staging/{staging_id}/category); subcategory_id
\* is NoCat when the call carries no request body
CategorizeRowKeepsStatus(row, category_id, subcategory_id) ==
    [row EXCEPT !.suggested_category_id = category_id,
                !.suggested_subcategory_id = subcategory_id]
CategorizeRow(row, category_id, subcategory_id) ==
    [row EXCEPT !.suggested_category_id = category_id,
                !.suggested_subcategory_id = subcategory_id,
                !.status = IF row.status = "needs_category" THEN "ready" ELSE row.status]

UpdateStagingCategory(staging_id, category_id, subcategory_id) ==
    /\ staging_id \in 1..Len(staged)
    /\ LET tx == staged[staging_id]
           propagate == tx.merchant_name \notin {NoText, EmptyText}
                        /\ tx.name \notin {NoText, EmptyText}
       IN  staged' = [i \in 1..Len(staged) |->
                        IF i = staging_id THEN CategorizeRow(staged[i], category_id, subcategory_id)
                        ELSE IF /\ propagate
                                /\ staged[i].merchant_name = tx.merchant_name
                                /\ staged[i].name = tx.name
                                /\ staged[i].status \in {"needs_category", "ready"}
                        THEN CategorizeRow(staged[i], category_id, subcategory_id)
                        ELSE staged[i]]
    /\ staged' # staged
    /\ lastCommit' = NoCommit
    /\ UNCHANGED <<ledger, accounts, nImports, itemCursor, rules, sess, procs, probe,
                   lastImport, call>>

RowIdChoices == {{}} \cup {{i} : i \in 1..Len(staged)} \cup {1..Len(staged)}
StatusChoices == {{}, {"needs_category"}, {"excluded", "duplicate", "superseded"}}

\* commit_import (POST /imports/{import_id}/commit): what the call does to the
\* tables
CommitCall(import_id, row_ids, statuses, fault) ==
    /\ import_id \in 1..nImports
    /\ row_ids # {} => statuses = {}
    /\ LET Done(r) ==
                /\ fault \in {0, r.selected, r.selected + 1}
                /\ ledger' = r.ledger
       IN  Done(commit_import(ledger, staged, accounts, import_id, row_ids, statuses, fault))
    /\ UNCHANGED <<staged, accounts, nImports, itemCursor, rules, sess, procs, probe,
                   lastImport, call>>

CommitImport(import_id, row_ids, statuses, fault) ==
    /\ CommitCall(import_id, row_ids, statuses, fault)
    /\ lastCommit' = NoCommit

\* The same call made by a caller that keeps what it got back: the summary of a
\* call that returned, and none for a call that raised (HTTP 500); partial says
\* that the call that raised had added rows to its session.  args are kept for
\* a call that inserted rows, and again says that this call, with no fault of
\* its own, repeats the arguments of the call right before it; first is the
\* number of rows that call processed.
CommitImportWatched(import_id, row_ids, statuses, fault) ==
    /\ CommitCall(import_id, row_ids, statuses, fault)
    /\ LET args == <<import_id, row_ids, statuses>>
           Got(r, again) ==
                [called |-> TRUE, ok |-> r.ok,
                 inserted |-> IF r.ok THEN r.inserted ELSE 0,
                 skipped_duplicates |-> IF r.ok THEN r.skipped_duplicates ELSE 0,
                 partial |-> ~r.ok /\ r.inserted > 0,
                 args |-> IF r.ok /\ r.inserted > 0 THEN args ELSE NoArgs,
                 again |-> again,
                 first |-> IF again THEN lastCommit.inserted + lastCommit.skipped_duplicates
                           ELSE 0]
       IN  lastCommit' =
                Got(commit_import(ledger, staged, accounts, import_id, row_ids, statuses, fault),
                    lastCommit.called /\ lastCommit.args = args /\ fault = 0)

Next ==
    \/ \E txs \in Fetches, w \in Windows, tie \in EngineTies : ImportGet(txs, w, tie, FALSE)
    \/ \E txs \in Fetches, rm \in RemovedLists, f \in AccountFilters, tie \in EngineTies :
            ImportSync(txs, rm, f, tie, FALSE)
    \/ \E k \in 1..nImports, ids \in RowIdChoices \ {{}} : Approve(k, ids)
    \/ \E i \in 1..Len(staged), c \in ManualCategoryIds : UpdateStagingCategory(i, c, NoCat)
    \/ \E k \in 1..nImports, ids \in RowIdChoices, ss \in StatusChoices,
          fault \in 0..(MaxStaged + 1) :
            CommitImport(k, ids, ss, fault)

Spec == Init /\ [][Next]_vars

\* Imports, approvals and commits by a caller that keeps what it got back
NextCommit ==
    \/ \E txs \in Fetches : ImportGet(txs, <<1, 2>>, "asc", FALSE)
    \/ \E k \in 1..nImports, ids \in RowIdChoices \ {{}} : Approve(k, ids)
    \/ \E k \in 1..nImports, ids \in RowIdChoices, ss \in StatusChoices,
          fault \in 0..(MaxStaged + 1) :
            CommitImportWatched(k, ids, ss, fault)

SpecCommit == Init /\ [][NextCommit]_vars

\* ------------------------------------------------------------------ staging, watched

\* Imports by a caller that keeps the response, over records that the exclusion
\* rules match and records they do not
ExclusionRecords == {RawPending, RawInflow, RawTransfer, RawPaymentReceived}

NextStage ==
    \/ \E held \in SeqsUpTo(ExclusionRecords, MaxStaged - Len(staged)), w \in Windows,
          tie \in EngineTies :
            ImportGet(held, w, tie, TRUE)
    \/ \E txs \in SeqsUpTo(ExclusionRecords, MaxStaged - Len(staged)),
          f \in AccountFilters, tie \in EngineTies :
            ImportSync(txs, <<>>, f, tie, TRUE)

SpecStage == Init /\ [][NextStage]_vars

\* ------------------------------------------------------------------ removed records

\* A ledger filled by a range import and its commit, then a delta of the
\* aggregator that reports records removed, taken in by each of the three
\* sync flows
SyncWindows == {<<NoDate, NoDate>>, <<1, 2>>}

NextRemoved ==
    \/ \E held \in SeqsUpTo({RawPending, RawPosted}, MaxStaged - Len(staged)) :
            ImportGet(held, <<1, 2>>, "asc", FALSE)
    \/ \E k \in 1..nImports : CommitImport(k, {}, {}, 0)
    \/ \E txs \in SeqsUpTo({RawInflow}, MaxStaged - Len(staged)), rm \in RemovedLists,
          f \in AccountFilters :
            ImportSync(txs, rm, f, "asc", TRUE)
    \/ \E txs \in SeqsUpTo({RawInflow}, MaxStaged - Len(staged)), rm \in RemovedLists,
          f \in AccountFilters, w \in SyncWindows :
            ImportTransactionsSync(txs, rm, f, w, "asc")
    \/ \E mode \in {"sync", "get"}, txs \in SeqsUpTo({RawInflow}, MaxStaged - Len(staged)),
          rm \in RemovedLists, f \in AccountFilters, w \in SyncWindows :
            ImportMulti(mode, txs, rm, f, w, "asc")

SpecRemoved == Init /\ [][NextRemoved]_vars

\* ------------------------------------------------------------------ date window

\* Range imports of records posted on the day of purchase (day 1), one day
\* after it (purchased day 1, posted day 2), two days after it (purchased day
\* 2, posted day 4) and after the grace days (purchased day 1, posted day 8)
RangeWindows == {<<1, 1>>, <<1, 2>>, <<2, 2>>}
WindowRecords ==
    {RawPending, RawPosted,
     Raw("T8", NoId, FALSE, "A1", 4, 2, NameCx, 42, "NONE"),
     Raw("T9", NoId, FALSE, "A1", 8, 1, NameCx, 42, "NONE")}

NextWindow ==
    \E held \in SeqsUpTo(WindowRecords, MaxStaged - Len(staged)), w \in RangeWindows,
       tie \in EngineTies :
        ImportGet(held, w, tie, TRUE)

SpecWindow == Init /\ [][NextWindow]_vars

\* ------------------------------------------------------------------ ledger duplicates

\* An inflow on the known account
RawInflowKnown == Raw("T6", NoId, FALSE, "A1", 2, NoDate, NameCx, -42, "NONE")

\* Inflows and a charge are imported, given a category, committed and imported
\* again
NextDuplicate ==
    \/ \E held \in SeqsUpTo({RawInflow, RawInflowKnown, RawPending},
                             MaxStaged - Len(staged)), tie \in EngineTies :
            ImportGet(held, <<1, 2>>, tie, FALSE)
    \/ \E i \in 1..Len(staged), c \in ManualCategoryIds : UpdateStagingCategory(i, c, NoCat)
    \/ \E k \in 1..nImports : CommitImport(k, {}, {}, 0)

SpecDuplicate == Init /\ [][NextDuplicate]_vars

\* ------------------------------------------------------------------ review

\* bulk_categorize (POST /staging/bulk-categorize) without a subcategory_id
BulkCategorize(staging_ids, category_id) ==
    /\ staged' = [i \in 1..Len(staged) |->
                    IF i \in staging_ids THEN CategorizeRow(staged[i], category_id, NoCat)
                    ELSE staged[i]]
    /\ staged' # staged
    /\ lastCommit' = NoCommit
    /\ UNCHANGED <<ledger, accounts, nImports, itemCursor, rules, sess, procs, probe,
                   lastImport, call>>

\* update_staging_amount (PUT /staging/{staging_id}/amount)
UpdateStagingAmount(staging_id, amount) ==
    /\ staging_id \in 1..Len(staged)
    /\ staged' = [staged EXCEPT ![staging_id].amount = amount]
    /\ staged' # staged
    /\ lastCommit' = NoCommit
    /\ UNCHANGED <<ledger, accounts, nImports, itemCursor, rules, sess, procs, probe,
                   lastImport, call>>

\* remap_staging_transactions (POST /imports/{import_id}/remap-staging):
\* _apply_mapping on every staged row of the import
RemapStaging(import_id, tie) ==
    /\ staged' = [i \in 1..Len(staged) |->
                    IF staged[i].import_id = import_id
                    THEN apply_mapping(staged[i], ledger, accounts, rules, tie)
                    ELSE staged[i]]
    /\ staged' # staged
    /\ lastCommit' = NoCommit
    /\ UNCHANGED <<ledger, accounts, nImports, itemCursor, rules, sess, procs, probe,
                   lastImport, call>>

\* fix_ready_status (POST /staging/fix-ready-status)
FixReadyStatus ==
    /\ staged' = [i \in 1..Len(staged) |->
                    IF staged[i].status = "ready" /\ staged[i].suggested_category_id = NoCat
                    THEN [staged[i] EXCEPT !.status = "needs_category"]
                    ELSE staged[i]]
    /\ staged' # staged
    /\ lastCommit' = NoCommit
    /\ UNCHANGED <<ledger, accounts, nImports, itemCursor, rules, sess, procs, probe,
                   lastImport, call>>

\* The posted record of the pending charge, under a name no rule knows
RawPostedUnknown == Raw("T7", "P1", FALSE, "A1", 2, 1, NameCtX, 42, "NONE")

\* A charge on an account not seen before, bought after the end of the window
RawLate == Raw("T8", NoId, FALSE, "A2", 3, NoDate, NameCx, 42, "NONE")

ReviewRecords == {RawPending, RawPostedUnknown, RawInflow, RawLate}

ReviewAmounts == {21}

\* Staging, reconciliation, the review routes and the commit
NextReview ==
    \/ \E held \in SeqsUpTo(ReviewRecords, MaxStaged) :
            /\ ImportGet(held, <<1, 2>>, "asc", FALSE)
            /\ Len(staged') <= MaxStaged
    \/ \E k \in 1..nImports, ids \in RowIdChoices \ {{}} : Approve(k, ids)
    \/ \E i \in 1..Len(staged), c \in ManualCategoryIds : UpdateStagingCategory(i, c, NoCat)
    \/ \E ids \in RowIdChoices \ {{}}, c \in ManualCategoryIds : BulkCategorize(ids, c)
    \/ \E i \in 1..Len(staged), a \in ReviewAmounts : UpdateStagingAmount(i, a)
    \/ \E k \in 1..nImports, tie \in EngineTies : RemapStaging(k, tie)
    \/ FixReadyStatus
    \/ \E k \in 1..nImports, ss \in StatusChoices : CommitImport(k, {}, ss, 0)

SpecReview == Init /\ [][NextReview]_vars

\* ------------------------------------------------------------------ other writers of the ledger

MaxLedger == 2
MaxSyncs == 2

\* str.strip()
RECURSIVE StripText(_)
StripText(t) ==
    IF t = <<>> THEN t
    ELSE IF IsSpace(Head(t)) THEN StripText(Tail(t))
    ELSE IF IsSpace(t[Len(t)]) THEN StripText(SubSeq(t, 1, Len(t) - 1))
    ELSE t

\* The Transaction PlaidService.sync_all_items builds from an added record: the
\* amount as the aggregator signs it, no txn_type (the column default applies);
\* the md5 digest is modelled by the tuple it is computed from
SyncedRow(tx, accts) ==
    [account_id |-> tx.account_id,
     plaid_transaction_id |-> tx.transaction_id,
     external_id |-> NoId,
     posted_date |-> tx.date,
     amount |-> tx.amount,
     merchant_raw |-> tx.merchant_name,
     description_raw |-> tx.name,
     merchant_norm |-> normalize_merchant(tx.merchant_name, tx.name),
     description_norm |-> normalize_description(tx.name),
     category_id |-> NoCat,
     subcategory_id |-> NoCat,
     source |-> SourceOf(accts, tx.account_id, "plaid"),
     txn_type |-> "expense",
     import_id |-> 0,
     hash_dedupe |-> <<"md5", tx.account_id, tx.date, tx.amount, tx.name>>,
     is_deleted |-> FALSE]

\* PlaidService.sync_all_items for the one item: added is the delta after
\* item.next_cursor.  A record on an account the table does not have makes the
\* call raise (account is None when its source is read), and so does a unique
\* violation at the commit: nothing is written then.
SyncAllItems(added) ==
    /\ itemCursor < MaxSyncs
    /\ Len(ledger) + Len(added) <= MaxLedger
    /\ \A i \in 1..Len(added) : added[i].account_id \in DOMAIN accounts
    /\ LET Committed(fl) ==
                /\ fl.ok
                /\ ledger' = fl.txns
       IN  Committed(Flush(ledger, [i \in 1..Len(added) |-> SyncedRow(added[i], accounts)]))
    /\ itemCursor' = itemCursor + 1
    /\ lastCommit' = NoCommit
    /\ UNCHANGED <<staged, accounts, nImports, rules, sess, procs, probe, lastImport, call>>

\* update_transaction (PUT /transactions/{transaction_id}) with update_data =
\* {amount}: txn_type is a protected field and stays
UpdateTransaction(transaction_id, amount) ==
    /\ transaction_id \in 1..Len(ledger)
    /\ amount # ledger[transaction_id].amount
    /\ ~\E k \in 1..Len(ledger) :
            /\ k # transaction_id
            /\ ledger[k].account_id = ledger[transaction_id].account_id
            /\ ledger[k].posted_date = ledger[transaction_id].posted_date
            /\ ledger[k].amount = amount
            /\ ledger[k].hash_dedupe = ledger[transaction_id].hash_dedupe
    /\ ledger' = [ledger EXCEPT ![transaction_id].amount = amount]
    /\ lastCommit' = NoCommit
    /\ UNCHANGED <<staged, accounts, nImports, itemCursor, rules, sess, procs, probe,
                   lastImport, call>>

\* The id of the parent category "Income" (_get_or_create_income_parent)
IncomeParentId == 3

TextIncome == <<"I", "n", "c", "o", "m", "e">>

\* HistoricalImporter._exists_hash
exists_hash(txns, h) == \E i \in 1..Len(txns) : txns[i].hash_dedupe = h

\* The (account_id, posted_date, amount, hash_dedupe) constraint, the one a row
\* without transaction ids can violate in _safe_add
DedupeViolation(txns, row) ==
    \E i \in 1..Len(txns) :
        /\ txns[i].account_id = row.account_id
        /\ txns[i].posted_date = row.posted_date
        /\ txns[i].amount = row.amount
        /\ txns[i].hash_dedupe = row.hash_dedupe

\* The Transaction _process_income_sheet builds from a row of the sheet (date,
\* amount, source, category): the amount as the sheet signs it
IncomeRow(row, accts) ==
    LET merchant_raw == IF row.source = EmptyText THEN TextIncome ELSE row.source
        merchant_norm == StripText(LowerText(merchant_raw))
        description_norm == StripText(LowerText(row.category))
    IN  [account_id |-> "A1",
         plaid_transaction_id |-> NoId,
         external_id |-> NoId,
         posted_date |-> row.date,
         amount |-> row.amount,
         merchant_raw |-> merchant_raw,
         description_raw |-> row.category,
         merchant_norm |-> merchant_norm,
         description_norm |-> description_norm,
         category_id |-> IncomeParentId,
         subcategory_id |-> IF row.category = EmptyText THEN NoCat ELSE row.l2,
         source |-> SourceOf(accts, "A1", "Excel"),
         txn_type |-> "income",
         import_id |-> 0,
         hash_dedupe |-> <<"sheet", row.date, row.amount, merchant_norm, description_norm,
                           "income">>,
         is_deleted |-> FALSE]

\* The loop of _process_income_sheet: a row whose date or amount does not parse
\* raises and is passed over without a count
RECURSIVE process_income_rows(_, _, _, _)
process_income_rows(rows, txns, counts, accts) ==
    IF rows = <<>> THEN [txns |-> txns, counts |-> counts]
    ELSE LET row == Head(rows)
             txn == IncomeRow(row, accts)
         IN  IF ~row.parses
             THEN process_income_rows(Tail(rows), txns, counts, accts)
             ELSE IF exists_hash(txns, txn.hash_dedupe) \/ DedupeViolation(txns, txn)
             THEN process_income_rows(Tail(rows), txns,
                                      [counts EXCEPT !.skipped = @ + 1], accts)
             ELSE process_income_rows(Tail(rows), Append(txns, txn),
                                      [counts EXCEPT !.inserted = @ + 1], accts)

\* The names _process_expense_sheet has bound when a row reaches the line that
\* determines the source, and the names historical_importer.py defines at module
\* level
ExpenseSheetNames ==
    {"self", "df", "counts", "COMMIT_EVERY", "inserted_since_commit", "date_col",
     "amount_col", "merchant_col", "desc_col", "category_col", "subcategory_col",
     "source_col", "parent_cache", "sub_cache", "row", "date_val", "amount_str",
     "amount", "merchant_raw", "description_raw", "source_from_file"}
ModuleNames ==
    {"hashlib", "io", "Path", "Dict", "Optional", "List", "datetime", "Decimal", "pd",
     "re", "Session", "text", "IntegrityError", "Transaction", "Category",
     "MerchantRule", "RuleType", "RuleFields", "Account", "MappingService",
     "get_source_from_account_id", "_UNSET", "HistoricalImporter"}

\* The Transaction _process_expense_sheet builds from a row of the sheet
ExpenseRow(row, accts) ==
    LET merchant_norm == StripText(LowerText(row.merchant))
        description_norm == StripText(LowerText(row.description))
    IN  [account_id |-> "A1",
         plaid_transaction_id |-> NoId,
         external_id |-> NoId,
         posted_date |-> row.date,
         amount |-> -Abs(row.amount),
         merchant_raw |-> row.merchant,
         description_raw |-> row.description,
         merchant_norm |-> merchant_norm,
         description_norm |-> description_norm,
         category_id |-> row.l1,
         subcategory_id |-> row.l2,
         source |-> SourceOf(accts, "A1", "Excel"),
         txn_type |-> "expense",
         import_id |-> 0,
         hash_dedupe |-> <<"sheet", row.date, row.amount, merchant_norm, description_norm,
                           "expense">>,
         is_deleted |-> FALSE]

\* The loop of _process_expense_sheet.  A row that raises is counted as skipped
\* by the except of the row: one whose date or amount does not parse, and one
\* that reads a name nothing binds (get_source_from_account_id(self.db,
\* account_id) raises NameError).
RECURSIVE process_expense_rows(_, _, _, _)
process_expense_rows(rows, txns, counts, accts) ==
    IF rows = <<>> THEN [txns |-> txns, counts |-> counts]
    ELSE LET row == Head(rows)
             txn == ExpenseRow(row, accts)
             Skipped == process_expense_rows(Tail(rows), txns,
                                             [counts EXCEPT !.skipped = @ + 1], accts)
         IN  IF ~row.parses THEN Skipped
             ELSE IF "account_id" \notin ExpenseSheetNames \cup ModuleNames THEN Skipped
             ELSE IF exists_hash(txns, txn.hash_dedupe) \/ DedupeViolation(txns, txn)
             THEN Skipped
             ELSE process_expense_rows(Tail(rows), Append(txns, txn),
                                       [counts EXCEPT !.inserted = @ + 1], accts)

ZeroCounts == [inserted |-> 0, skipped |-> 0]

\* _process_income_sheet(df) and the commit of its caller; the caller keeps the
\* counts
ProcessIncomeSheet(rows) ==
    /\ Len(ledger) + Len(rows) <= MaxLedger
    /\ LET Done(r) ==
                /\ ledger' = r.txns
                /\ probe' = [sheet |-> "income", counts |-> r.counts]
       IN  Done(process_income_rows(rows, ledger, ZeroCounts, accounts))
    /\ lastCommit' = NoCommit
    /\ UNCHANGED <<staged, accounts, nImports, itemCursor, rules, sess, procs, lastImport,
                   call>>

\* _process_expense_sheet(df) and the commit of its caller
ProcessExpenseSheet(rows) ==
    /\ Len(ledger) + Len(rows) <= MaxLedger
    /\ LET Done(r) ==
                /\ ledger' = r.txns
                /\ probe' = [sheet |-> "expense", counts |-> r.counts]
       IN  Done(process_expense_rows(rows, ledger, ZeroCounts, accounts))
    /\ lastCommit' = NoCommit
    /\ UNCHANGED <<staged, accounts, nImports, itemCursor, rules, sess, procs, lastImport,
                   call>>

\* Rows of a sheet: date, amount, store or source, description, and the two
\* category labels (given by the ids the category table has for them)
SheetRow(d, amount, source, parses) ==
    [date |-> d, amount |-> amount, source |-> source, merchant |-> source,
     description |-> EmptyText, category |-> EmptyText, l1 |-> 1, l2 |-> NoCat,
     parses |-> parses]

SheetRows ==
    {SheetRow(1, a, NameCx, TRUE) : a \in {42, -42}} \cup {SheetRow(1, 0, NameCx, FALSE)}

UpdateAmounts == {42, -42}

\* The writers of the ledger: staging and commit, the scheduled sync, the
\* update route and the two kinds of sheet
NextLedger ==
    \/ \E held \in SeqsUpTo({RawPending, RawInflow}, MaxStaged - Len(staged)) :
            ImportGet(held, <<1, 2>>, "asc", FALSE)
    \/ \E k \in 1..nImports :
            /\ CommitImport(k, {}, {}, 0)
            /\ Len(ledger') <= MaxLedger
    \/ \E added \in SeqsUpTo({RawPending, RawInflowKnown}, 1) : SyncAllItems(added)
    \/ \E i \in 1..Len(ledger), a \in UpdateAmounts : UpdateTransaction(i, a)
    \/ \E rows \in SeqsUpTo(SheetRows, 2) \ {<<>>} : ProcessIncomeSheet(rows)
    \/ \E rows \in SeqsUpTo(SheetRows, 2) \ {<<>>} : ProcessExpenseSheet(rows)

SpecLedger == Init /\ [][NextLedger]_vars

\* ------------------------------------------------------------------ propagation

\* Charges that carry a merchant name: two with the same merchant name and
\* name, a transfer with that pair, and one with the merchant name under
\* another name
PairRecord(id, d, name, pf) ==
    [Raw(id, NoId, FALSE, "A1", d, NoDate, name, 42, pf) EXCEPT !.merchant_name = NameCtX]

PairRecords ==
    {PairRecord("T9", 1, NameCtX, "NONE"), PairRecord("T10", 2, NameCtX, "NONE"),
     PairRecord("T11", 2, NameCtX, "TRANSFER"), PairRecord("T12", 1, NameCx, "NONE"),
     RawPending}

PropagateCategories == {1, 2}
PropagateSubcategories == {NoCat, 3}

NextPropagate ==
    \/ \E held \in SeqsUpTo(PairRecords, MaxStaged - Len(staged)) :
            ImportGet(held, <<1, 2>>, "asc", FALSE)
    \/ \E k \in 1..nImports, ids \in RowIdChoices \ {{}} : Approve(k, ids)
    \/ \E i \in 1..Len(staged), c \in PropagateCategories, sc \in PropagateSubcategories :
            UpdateStagingCategory(i, c, sc)

SpecPropagate == Init /\ [][NextPropagate]_vars

\* ------------------------------------------------------------------ history

\* Import, review and commit of charges with one name on a known account and on
\* an account the import created: the rule of the table gives category 1, the
\* reviewer gives category 2
NextHistory ==
    \/ \E held \in SeqsUpTo({RawPending, RawOtherAccount}, MaxStaged - Len(staged)),
          tie \in EngineTies :
            ImportGet(held, <<1, 2>>, tie, FALSE)
    \/ \E i \in 1..Len(staged), c \in ManualCategoryIds : UpdateStagingCategory(i, c, NoCat)
    \/ \E k \in 1..nImports : CommitImport(k, {}, {}, 0)

SpecHistory == Init /\ [][NextHistory]_vars

\* ------------------------------------------------------------------ rule matcher

\* The rules the table merchant_rules can hold: on the merchant field, of the
\* three types, with patterns "cx" and "c"
NameC == <<"c">>
RulePriorities == {0, 1}
RuleCategories == {1, 2}

RuleUniverse ==
    {[rule_type |-> t, fields |-> "MERCHANT", pattern |-> pat, desc_pattern |-> NoText,
      category_id |-> c, subcategory_id |-> NoCat, priority |-> pr] :
        t \in {"EXACT", "CONTAINS", "REGEX"}, pat \in {NameCx, NameC},
        c \in RuleCategories, pr \in RulePriorities}

InitRules ==
    /\ InitPipeline
    /\ rules \in SeqsUpTo(RuleUniverse, MaxRules)
    /\ sess = NoSession
    /\ procs = NoProcs
    /\ probe = NoProbe
    /\ lastImport = NoImport
    /\ call = NoCall

\* A call of apply_rules_to_transaction on the rules of the table
ApplyRules(merchant_norm, tie) ==
    /\ probe' = [asked |-> TRUE, merchant_norm |-> merchant_norm,
                 result |-> apply_rules_to_transaction(merchant_norm, EmptyText, rules, tie)]
    /\ UNCHANGED <<ledger, staged, accounts, nImports, itemCursor, rules, lastCommit,
                   sess, procs, lastImport, call>>

NextRules == \E m \in {NameCx, NameC, EmptyText}, tie \in EngineTies : ApplyRules(m, tie)

SpecRules == InitRules /\ [][NextRules]_vars

\* ------------------------------------------------------------------ pattern match

\* Texts and patterns of rules: empty, lower and upper case, with a wildcard,
\* with the classes of digits and of non-digits, and one that does not compile
NameCX == <<"C", "X">>
NameC7 == <<"c", "7">>
MatchTexts == {NoText, EmptyText, NameCx, NameC, NameC7}
MatchPatterns ==
    {EmptyText, NameCx, NameC, NameCX, <<"c", ".">>, <<"[", "c">>,
     <<"c", "\\", "d">>, <<"c", "\\", "D">>}

\* A call of matches_pattern
MatchPattern(text, pattern, rule_type) ==
    /\ probe' = [asked |-> TRUE, text |-> text, pattern |-> pattern,
                 rule_type |-> rule_type,
                 result |-> matches_pattern(text, pattern, rule_type)]
    /\ UNCHANGED <<ledger, staged, accounts, nImports, itemCursor, rules, lastCommit,
                   sess, procs, lastImport, call>>

NextMatch ==
    \E text \in MatchTexts, pattern \in MatchPatterns,
       rule_type \in {"EXACT", "CONTAINS", "REGEX"} : MatchPattern(text, pattern, rule_type)

SpecMatch == Init /\ [][NextMatch]_vars

\* ------------------------------------------------------------------ merchant names

\* Raw merchants and descriptions: absent, empty, names, and texts made of
\* punctuation, of blanks or of a keyword only
RawTexts ==
    {NoText, EmptyText, NameCx, NameC, NameCX, NameCxStar, NameCtX, NamePaymentReceived,
     KwPayment, <<"*">>, <<"!", "*">>, <<" ">>}

\* A call of normalize_merchant
NormalizeMerchant(merchant_raw, description_raw) ==
    /\ probe' = [asked |-> TRUE, merchant_raw |-> merchant_raw,
                 description_raw |-> description_raw,
                 result |-> normalize_merchant(merchant_raw, description_raw)]
    /\ UNCHANGED <<ledger, staged, accounts, nImports, itemCursor, rules, lastCommit,
                   sess, procs, lastImport, call>>

NextNormalize == \E m \in RawTexts, d \in RawTexts : NormalizeMerchant(m, d)

SpecNormalize == Init /\ [][NextNormalize]_vars

\* ------------------------------------------------------------------ rule fields

\* One rule of the table, on the merchant, on the description or on both
FieldRuleUniverse ==
    {[rule_type |-> t, fields |-> f, pattern |-> pat, desc_pattern |-> dpat,
      category_id |-> 1, subcategory_id |-> NoCat, priority |-> 0] :
        t \in {"EXACT", "CONTAINS"}, f \in {"MERCHANT", "DESCRIPTION", "PAIR"},
        pat \in {NameCx, NameC}, dpat \in {NameCx, NameC}}

InitFields ==
    /\ InitPipeline
    /\ rules \in {<<r>> : r \in FieldRuleUniverse}
    /\ sess = NoSession
    /\ procs = NoProcs
    /\ probe = [asked |-> FALSE, merchant_norm |-> NoText, description_norm |-> NoText,
                result |-> <<NoCat, NoCat>>]
    /\ lastImport = NoImport
    /\ call = NoCall

\* A call of apply_rules_to_transaction with a merchant and a description
MatchFields(merchant_norm, description_norm, tie) ==
    /\ probe' = [asked |-> TRUE, merchant_norm |-> merchant_norm,
                 description_norm |-> description_norm,
                 result |-> apply_rules_to_transaction(merchant_norm, description_norm,
                                                       rules, tie)]
    /\ UNCHANGED <<ledger, staged, accounts, nImports, itemCursor, rules, lastCommit,
                   sess, procs, lastImport, call>>

NextFields ==
    \E m \in {NoText, EmptyText, NameCx, NameC}, d \in {NoText, EmptyText, NameCx, NameC},
       tie \in EngineTies : MatchFields(m, d, tie)

SpecFields == InitFields /\ [][NextFields]_vars

\* ------------------------------------------------------------------ sync session

\* retries of _plaid_with_retry
PlaidRetries == 3

\* The close of the request's session by get_db: what the session holds and has
\* not committed is dropped
get_db_close_keeps(persisted, held) == held
get_db_close(persisted, held) == persisted

\* import_transactions_sync starts: the item is read, the import record added,
\* and _fetch_transactions_sync starts from item.next_cursor
SyncBegin ==
    /\ sess.pc = "idle"
    /\ nImports < MaxImports
    /\ sess' = [pc |-> "fetching", outcome |-> "none", start |-> itemCursor,
                next_cursor |-> itemCursor, item_cursor |-> itemCursor,
                tries |-> 0, pages |-> 0]
    /\ UNCHANGED <<ledger, staged, accounts, nImports, itemCursor, rules, lastCommit,
                   procs, probe, lastImport, call>>

\* A page arrives: next_cursor moves on; after the page with has_more false
\* _fetch_transactions_sync returns and item.next_cursor is set on the session's
\* item
SyncPage(has_more) ==
    /\ sess.pc = "fetching"
    /\ sess.pages < MaxPages
    /\ sess.pages + 1 = MaxPages => ~has_more
    /\ sess' = [sess EXCEPT !.next_cursor = @ + 1,
                            !.pages = @ + 1,
                            !.tries = 0,
                            !.item_cursor = IF has_more THEN @ ELSE sess.next_cursor + 1,
                            !.pc = IF has_more THEN "fetching" ELSE "staging"]
    /\ UNCHANGED <<ledger, staged, accounts, nImports, itemCursor, rules, lastCommit,
                   procs, probe, lastImport, call>>

\* The session ends without db.commit(): the exception leaves the route and
\* get_db closes the session
SyncEnds(outcome) ==
    /\ sess' = [NoSession EXCEPT !.outcome = outcome, !.start = sess.start,
                                 !.pages = sess.pages]
    /\ itemCursor' = get_db_close(itemCursor, sess.item_cursor)
    /\ UNCHANGED <<ledger, staged, accounts, nImports, rules, lastCommit, procs, probe,
                   lastImport, call>>

\* The page request fails with a transient error: _plaid_with_retry tries again
\* while i < retries - 1, then raises HTTP 502
SyncTransientError ==
    /\ sess.pc = "fetching"
    /\ IF sess.tries < PlaidRetries - 1
       THEN /\ sess' = [sess EXCEPT !.tries = @ + 1]
            /\ UNCHANGED <<ledger, staged, accounts, nImports, itemCursor, rules,
                           lastCommit, procs, probe, lastImport, call>>
       ELSE SyncEnds("failed")

\* The page request fails with an error that is not retried
SyncFatalError ==
    /\ sess.pc = "fetching"
    /\ SyncEnds("failed")

\* The request is cancelled while pages are being fetched
SyncCancel ==
    /\ sess.pc = "fetching"
    /\ SyncEnds("cancelled")

\* _stage_transactions raises
SyncStagingRaises ==
    /\ sess.pc = "staging"
    /\ SyncEnds("failed")

\* The records are staged, the removed ones soft deleted, and db.commit() makes
\* the staging rows and item.next_cursor durable
SyncCommit(txs, removed, tie) ==
    /\ sess.pc = "staging"
    /\ LET Stored(r) == staged' = r.staged /\ accounts' = r.accts
       IN  Stored(stage_transactions(nImports + 1, txs, {}, NoDate, NoDate,
                                     staged, accounts, ledger, rules, tie))
    /\ ledger' = SoftDelete(ledger, removed)
    /\ itemCursor' = sess.item_cursor
    /\ nImports' = nImports + 1
    /\ sess' = [NoSession EXCEPT !.outcome = "done", !.start = sess.start,
                                 !.pages = sess.pages]
    /\ lastCommit' = NoCommit
    /\ UNCHANGED <<rules, procs, probe, lastImport, call>>

NextSync ==
    \/ SyncBegin
    \/ \E has_more \in BOOLEAN : SyncPage(has_more)
    \/ SyncTransientError
    \/ SyncFatalError
    \/ SyncCancel
    \/ SyncStagingRaises
    \/ \E txs \in Fetches, rm \in RemovedLists, tie \in EngineTies : SyncCommit(txs, rm, tie)

SpecSync == Init /\ [][NextSync]_vars

\* ------------------------------------------------------------------ retry

\* The error codes _plaid_with_retry tries again on
TransientCodes == {"INTERNAL_SERVER_ERROR", "PRODUCT_NOT_READY", "RATE_LIMIT_EXCEEDED"}

\* What one call of fn() can do: return, raise an ApiException whose body
\* carries an error_code (none when the body is not JSON: the code read is ""),
\* or raise an exception that is not an ApiException (the connection failed)
FnReturns == "<returns>"
FnRaisesOther == "<exception>"
FnResults ==
    {FnReturns, FnRaisesOther} \cup TransientCodes
        \cup {"ITEM_LOGIN_REQUIRED", "INVALID_REQUEST", ""}

\* _plaid_with_retry(fn) is called
RetryBegin ==
    /\ call.pc \in {"idle", "ended"}
    /\ call' = [NoCall EXCEPT !.pc = "calling"]
    /\ UNCHANGED <<ledger, staged, accounts, nImports, itemCursor, rules, lastCommit,
                   sess, procs, probe, lastImport>>

\* One pass of the loop for i in range(retries): fn() is called and returns or
\* raises
RetryAttempt(result) ==
    /\ call.pc = "calling"
    /\ call.i < PlaidRetries
    /\ LET Tried == [call EXCEPT !.attempts = @ + 1, !.results = Append(@, result)]
       IN  call' =
             IF result = FnReturns
             THEN [Tried EXCEPT !.pc = "ended", !.outcome = "returned"]
             ELSE IF result = FnRaisesOther
             THEN [Tried EXCEPT !.pc = "ended", !.outcome = "exception"]
             ELSE IF result \in TransientCodes /\ call.i < PlaidRetries - 1
             THEN [Tried EXCEPT !.i = @ + 1]
             ELSE [Tried EXCEPT !.pc = "ended", !.outcome = "http_502",
                                !.plaid_error = result]
    /\ UNCHANGED <<ledger, staged, accounts, nImports, itemCursor, rules, lastCommit,
                   sess, procs, probe, lastImport>>

NextRetry ==
    \/ RetryBegin
    \/ \E result \in FnResults : RetryAttempt(result)

SpecRetry == Init /\ [][NextRetry]_vars

\* ------------------------------------------------------------------ content hash

\* f"{amount:.2f}" of a Decimal given in thousandths: the sign, and the cents
\* rounded half to even
Format2f(amount) ==
    LET Rounded(q, r) == IF r > 5 \/ (r = 5 /\ q % 2 = 1) THEN q + 1 ELSE q
    IN  <<IF amount < 0 THEN "-" ELSE "", Rounded(Abs(amount) \div 10, Abs(amount) % 10)>>

\* The same with the posted date left out of the hashed string
generate_transaction_hash_undated(account_id, posted_date, amount, merchant_norm, description_raw) ==
    <<account_id, Format2f(amount),
      IF merchant_norm \notin {NoText, EmptyText} THEN merchant_norm
      ELSE IF description_raw \notin {NoText, EmptyText} THEN description_raw
      ELSE EmptyText>>

\* MappingService.generate_transaction_hash: sha256 of
\* f"{account_id}|{posted_date}|{amount:.2f}|{identifier}"; the digest is
\* modelled by the fields of the string it is computed from
generate_transaction_hash(account_id, posted_date, amount, merchant_norm, description_raw) ==
    <<account_id, posted_date, Format2f(amount),
      IF merchant_norm \notin {NoText, EmptyText} THEN merchant_norm
      ELSE IF description_raw \notin {NoText, EmptyText} THEN description_raw
      ELSE EmptyText>>

\* Arguments of generate_transaction_hash as csv_importer passes them: the
\* amount is the Decimal the file holds, here in thousandths
HashAmounts == {-10, -4, 0, 4, 5, 10, 15, 20}

HashArgs ==
    [account_id : {1, 2}, posted_date : {1, 2}, amount : HashAmounts,
     merchant_norm : {NoText, NameCx}, description_raw : {NoText, NameC, NameCx}]

InitHash ==
    /\ InitPipeline
    /\ rules = <<>>
    /\ sess = NoSession
    /\ procs = NoProcs
    /\ probe \in {[asked |-> FALSE, first |-> x, second |-> y, result |-> <<>>] :
                    x \in HashArgs, y \in HashArgs}
    /\ lastImport = NoImport
    /\ call = NoCall

\* Two calls of generate_transaction_hash
HashTwice ==
    LET Hash(x) == generate_transaction_hash(x.account_id, x.posted_date, x.amount,
                                             x.merchant_norm, x.description_raw)
    IN  /\ ~probe.asked
        /\ probe' = [probe EXCEPT !.asked = TRUE,
                                  !.result = <<Hash(probe.first), Hash(probe.second)>>]
        /\ UNCHANGED <<ledger, staged, accounts, nImports, itemCursor, rules, lastCommit,
                       sess, procs, lastImport, call>>

NextHash == HashTwice

SpecHash == InitHash /\ [][NextHash]_vars

\* ------------------------------------------------------------------ recurring charges

\* Amounts are cents, dates are <<month number, day of month>>; a median is kept
\* doubled, so that the mean of two middle values stays an integer.
AMOUNT_PCT_TOL == 10
AMOUNT_ABS_TOL == 300
DAY_OF_MONTH_TOL == 7
MIN_CONSEC_MONTHS == 3
PRICE_CHANGE_THRESHOLD == 100

\* statistics.median, doubled
median2(values) ==
    LET Middle(s) == IF Len(s) % 2 = 1 THEN 2 * s[(Len(s) + 1) \div 2]
                     ELSE s[Len(s) \div 2] + s[Len(s) \div 2 + 1]
    IN  Middle(SortSeq(values, LAMBDA a, b : a < b))

\* SubscriptionDetector._within_amount_tolerance, both sides times 200
within_amount_tolerance(amount, reference2) ==
    LET Tolerance(abs, pct) == IF abs >= pct THEN abs ELSE pct
    IN  Abs(200 * Abs(amount) - 100 * Abs(reference2))
            <= Tolerance(200 * AMOUNT_ABS_TOL, Abs(reference2) * AMOUNT_PCT_TOL)

\* SubscriptionDetector._find_consecutive_runs: <<first index, last index>> of
\* each run of consecutive months
find_consecutive_runs_whole(months) ==
    IF months = <<>> THEN <<>> ELSE << <<1, Len(months)>> >>
find_consecutive_runs(months) ==
    LET RECURSIVE RunsFrom(_, _)
        RunsFrom(start_idx, i) ==
            IF i > Len(months) THEN << <<start_idx, Len(months)>> >>
            ELSE IF months[i] - months[i - 1] # 1
                 THEN << <<start_idx, i - 1>> >> \o RunsFrom(i, i + 1)
                 ELSE RunsFrom(start_idx, i + 1)
    IN  IF months = <<>> THEN <<>> ELSE RunsFrom(1, 2)

\* SubscriptionDetector._merge_adjacent_segments (the segments come sorted by
\* start_date); monthly_amount of a segment is the doubled median
merge_adjacent_segments(segments) ==
    LET Merged(current, seg) ==
            [current EXCEPT
                !.price_changes =
                    IF Abs(seg.monthly_amount - current.monthly_amount)
                          >= 2 * PRICE_CHANGE_THRESHOLD
                    THEN Append(@, [from |-> current.monthly_amount \div 2,
                                    to |-> seg.monthly_amount \div 2,
                                    date |-> seg.start_date])
                    ELSE @,
                !.end_date = seg.end_date,
                !.months_count = @ + seg.months_count,
                !.total_charged = @ + seg.total_charged,
                !.monthly_amount = seg.monthly_amount]
        Fresh(seg) == [seg EXCEPT !.price_changes = <<>>]
        RECURSIVE MergeFrom(_, _)
        MergeFrom(i, current) ==
            IF i > Len(segments) THEN <<current>>
            ELSE IF segments[i].start_date - current.end_date <= 4
                 THEN MergeFrom(i + 1, Merged(current, segments[i]))
                 ELSE <<current>> \o MergeFrom(i + 1, Fresh(segments[i]))
    IN  IF segments = <<>> THEN <<>> ELSE MergeFrom(2, Fresh(segments[1]))

\* SubscriptionDetector._is_subscription_category over the category names and
\* merchants modelled: a name holds an entry of a list only when it is the
\* entry, and no merchant holds a keyword of SUBSCRIPTION_MERCHANT_KEYWORDS
is_subscription_category(category, merchant) ==
    IF category = "" THEN FALSE
    ELSE IF category \in {"Restaurant", "Groceries", "Retail", "Shopping", "Travel"}
         THEN FALSE
         ELSE category \in {"Subscriptions", "Streaming", "Entertainment", "Software"}

\* The segments of one merchant: one charge a month (the one closest to the
\* median of the month, the first of them in list order), runs of consecutive
\* months, and the amount and day-of-month checks on each run
DetectSegments(txns) ==
    LET MonthTxns(mo) == SelectSeq(txns, LAMBDA t : t.date[1] = mo)
        Amounts(ts) == [i \in 1..Len(ts) |-> ts[i].amount]
        Best(ts, median_amount) ==
            ts[CHOOSE i \in 1..Len(ts) :
                  /\ \A j \in 1..Len(ts) :
                        Abs(2 * ts[j].amount - median_amount)
                            >= Abs(2 * ts[i].amount - median_amount)
                  /\ \A j \in 1..(i - 1) :
                        Abs(2 * ts[j].amount - median_amount)
                            > Abs(2 * ts[i].amount - median_amount)]
        monthly_picks ==
            [mo \in {txns[i].date[1] : i \in 1..Len(txns)} |->
                Best(MonthTxns(mo), median2(Amounts(MonthTxns(mo))))]
        RECURSIVE Ascending(_)
        Ascending(S) ==
            IF S = {} THEN <<>>
            ELSE LET least == CHOOSE x \in S : \A y \in S : x <= y
                 IN  <<least>> \o Ascending(S \ {least})
        RECURSIVE Sum(_)
        Sum(v) == IF v = <<>> THEN 0 ELSE v[1] + Sum(Tail(v))
        Segment(run_months, run_amounts, days_of_month, median_amount, median_day) ==
            IF Len(run_months) < MIN_CONSEC_MONTHS THEN <<>>
            ELSE IF 10 * Cardinality({i \in 1..Len(run_amounts) :
                        ~within_amount_tolerance(run_amounts[i], median_amount)})
                      > 3 * Len(run_amounts) THEN <<>>
            ELSE IF \E i \in 1..Len(days_of_month) :
                        Abs(2 * days_of_month[i] - median_day) > 2 * DAY_OF_MONTH_TOL
                 THEN <<>>
            ELSE <<[start_date |-> run_months[1],
                    end_date |-> run_months[Len(run_months)],
                    monthly_amount |-> median_amount,
                    months_count |-> Len(run_months),
                    total_charged |-> Sum(run_amounts),
                    price_changes |-> <<>>]>>
        OfRun(run_months) ==
            IF Len(run_months) < MIN_CONSEC_MONTHS THEN <<>>
            ELSE Segment(run_months,
                         [i \in 1..Len(run_months) |-> monthly_picks[run_months[i]].amount],
                         [i \in 1..Len(run_months) |-> monthly_picks[run_months[i]].date[2]],
                         median2([i \in 1..Len(run_months) |->
                                     monthly_picks[run_months[i]].amount]),
                         median2([i \in 1..Len(run_months) |->
                                     monthly_picks[run_months[i]].date[2]]))
        RECURSIVE OfRuns(_, _, _)
        OfRuns(months_sorted, runs, k) ==
            IF k > Len(runs) THEN <<>>
            ELSE OfRun(SubSeq(months_sorted, runs[k][1], runs[k][2]))
                    \o OfRuns(months_sorted, runs, k + 1)
        Runs(months_sorted) ==
            OfRuns(months_sorted, find_consecutive_runs(months_sorted), 1)
    IN  IF Cardinality(DOMAIN monthly_picks) < MIN_CONSEC_MONTHS THEN <<>>
        ELSE Runs(Ascending(DOMAIN monthly_picks))

\* SubscriptionDetector.detect_subscriptions on the charges of one merchant
\* name (one group of merchant_groups) with one category name: the expenses
\* only, amounts made positive; the records sorted by total charged, then by
\* months, descending
detect_subscriptions(transactions) ==
    LET Expense(t) == [t EXCEPT !.amount = Abs(t.amount)]
        Kept(ts) == [i \in 1..Len(ts) |-> Expense(ts[i])]
        Result(txns, main_category, segment) ==
            [merchant |-> txns[Len(txns)].merchant_raw,
             category |-> main_category,
             monthly_amount |-> segment.monthly_amount \div 2,
             months_count |-> segment.months_count,
             total_charged |-> segment.total_charged,
             first_date |-> segment.start_date,
             last_date |-> segment.end_date,
             price_changes |-> segment.price_changes]
        Results(txns, main_category, merged) ==
            [i \in 1..Len(merged) |-> Result(txns, main_category, merged[i])]
        Sorted(results) ==
            SortSeq(results, LAMBDA a, b :
                \/ a.total_charged > b.total_charged
                \/ /\ a.total_charged = b.total_charged
                   /\ a.months_count > b.months_count)
        Group(txns) ==
            IF Len(txns) < MIN_CONSEC_MONTHS THEN <<>>
            ELSE IF ~is_subscription_category(txns[1].category, txns[Len(txns)].merchant_raw)
                 THEN <<>>
                 ELSE Sorted(Results(txns, txns[1].category,
                         SelectSeq(merge_adjacent_segments(DetectSegments(txns)),
                                   LAMBDA g : g.months_count >= MIN_CONSEC_MONTHS)))
    IN  Group(Kept(SelectSeq(transactions,
                 LAMBDA t : t.merchant_raw \notin {NoText, EmptyText} /\ t.amount < 0)))

\* Six charges of 15.99, 15.99, 15.99, 17.99, 17.99, 17.99 of one merchant, in
\* six consecutive months or in two runs of three months, each on day 4, 5 or 6
ChargeMonths == {<<1, 2, 3, 4, 5, 6>>, <<1, 2, 3, 5, 6, 7>>, <<1, 2, 3, 9, 10, 11>>}
ChargeAmounts == <<-1599, -1599, -1599, -1799, -1799, -1799>>
ChargeCategories == {"Streaming", "Groceries"}

ChargeLists ==
    {[i \in 1..6 |-> [date |-> <<months[i], days[i]>>, merchant_raw |-> NameCx,
                      amount |-> ChargeAmounts[i], category |-> category]] :
        months \in ChargeMonths, days \in [1..6 -> {4, 5, 6}],
        category \in ChargeCategories}

InitDetect ==
    /\ InitPipeline
    /\ rules = <<>>
    /\ sess = NoSession
    /\ procs = NoProcs
    /\ probe \in {[asked |-> FALSE, transactions |-> txns, result |-> <<>>] :
                    txns \in ChargeLists}
    /\ lastImport = NoImport
    /\ call = NoCall

\* A call of detect_subscriptions on the charges
Detect ==
    /\ ~probe.asked
    /\ probe' = [probe EXCEPT !.asked = TRUE,
                              !.result = detect_subscriptions(probe.transactions)]
    /\ UNCHANGED <<ledger, staged, accounts, nImports, itemCursor, rules, lastCommit,
                   sess, procs, lastImport, call>>

NextDetect == Detect

SpecDetect == InitDetect /\ [][NextDetect]_vars

\* ------------------------------------------------------------------ runs of months

\* Month starts as <<year, month>>
MonthDates ==
    {<<2023, 11>>, <<2023, 12>>, <<2024, 1>>, <<2024, 2>>, <<2024, 4>>, <<2024, 5>>,
     <<2025, 5>>}

\* year * 12 + month: the difference of two of these is months_diff of
\* _find_consecutive_runs
MonthNumber(d) == d[1] * 12 + d[2]

\* sorted(monthly_picks.keys())
RECURSIVE SortedMonths(_)
SortedMonths(S) ==
    IF S = {} THEN <<>>
    ELSE LET first == CHOOSE d \in S : \A e \in S : MonthNumber(d) <= MonthNumber(e)
         IN  <<first>> \o SortedMonths(S \ {first})

InitRuns ==
    /\ InitPipeline
    /\ rules = <<>>
    /\ sess = NoSession
    /\ procs = NoProcs
    /\ probe \in {[asked |-> FALSE, months |-> SortedMonths(S), result |-> <<>>] :
                    S \in SUBSET MonthDates}
    /\ lastImport = NoImport
    /\ call = NoCall

\* A call of _find_consecutive_runs on the sorted months; the result holds the
\* index pairs as the code numbers them, from 0
FindRuns ==
    /\ ~probe.asked
    /\ LET Numbered(runs) == [k \in 1..Len(runs) |-> <<runs[k][1] - 1, runs[k][2] - 1>>]
       IN  probe' = [probe EXCEPT
                        !.asked = TRUE,
                        !.result = Numbered(find_consecutive_runs(
                                       [i \in 1..Len(probe.months) |->
                                           MonthNumber(probe.months[i])]))]
    /\ UNCHANGED <<ledger, staged, accounts, nImports, itemCursor, rules, lastCommit,
                   sess, procs, lastImport, call>>

NextRuns == FindRuns

SpecRuns == InitRuns /\ [][NextRuns]_vars

\* ------------------------------------------------------------------ concurrent commits

\* commit_import starts in a session of its own: query.all() reads the selected
\* staging rows
ConcStart(p, import_id, row_ids, statuses) ==
    /\ procs[p].pc = "idle"
    /\ import_id \in 1..nImports
    /\ row_ids # {} => statuses = {}
    /\ procs' = [procs EXCEPT ![p] =
                    [pc |-> "loop", import_id |-> import_id,
                     sel |-> CommitSelection(staged, import_id, row_ids, statuses),
                     added |-> <<>>, inserted |-> 0, skipped_duplicates |-> 0]]
    /\ UNCHANGED <<ledger, staged, accounts, nImports, itemCursor, rules, lastCommit,
                   sess, probe, lastImport, call>>

\* One iteration of the loop: the two queries read the committed ledger, and a
\* row that passes them is added to the session
ConcRow(p) ==
    /\ procs[p].pc = "loop"
    /\ procs[p].sel # <<>>
    /\ LET Iterated(run) ==
                procs' = [procs EXCEPT ![p].sel = Tail(@),
                                       ![p].added = run.added,
                                       ![p].inserted = run.inserted,
                                       ![p].skipped_duplicates = run.skipped_duplicates]
       IN  Iterated(CommitLoop(<<Head(procs[p].sel)>>, 1, 0,
                               [inserted |-> procs[p].inserted,
                                skipped_duplicates |-> procs[p].skipped_duplicates,
                                added |-> procs[p].added, raised |-> FALSE],
                               ledger, [import_id |-> procs[p].import_id, accts |-> accounts]))
    /\ UNCHANGED <<ledger, staged, accounts, nImports, itemCursor, rules, lastCommit,
                   sess, probe, lastImport, call>>

\* db.commit() after the loop: the added rows are flushed against the ledger as
\* it is now; IntegrityError is not caught in commit_import, the route rolls back
\* and answers HTTP 500
ConcCommit(p) ==
    /\ procs[p].pc = "loop"
    /\ procs[p].sel = <<>>
    /\ LET fl == Flush(ledger, procs[p].added)
       IN  /\ ledger' = IF fl.ok THEN fl.txns ELSE db_rollback(ledger, fl.txns)
           /\ procs' = [procs EXCEPT ![p].pc = IF fl.ok THEN "done" ELSE "raised"]
    /\ UNCHANGED <<staged, accounts, nImports, itemCursor, rules, lastCommit, sess, probe,
                   lastImport, call>>

NextConc ==
    \/ \E txs \in Fetches : ImportGet(txs, <<1, 2>>, "asc", FALSE)
    \/ \E p \in Procs, k \in 1..nImports : ConcStart(p, k, {}, {})
    \/ \E p \in Procs : ConcRow(p)
    \/ \E p \in Procs : ConcCommit(p)

SpecConc == Init /\ [][NextConc]_vars

\* ------------------------------------------------------------------ properties

\* The rows a step appended to the ledger, and the rows it staged
NewLedgerRows == (Len(ledger) + 1)..Len(ledger')
NewStagedRows == (Len(staged) + 1)..Len(staged')
ImportStep == nImports' = nImports + 1

\* The staging rows a ledger row can have been made from
StagedSources(row) ==
    {j \in 1..Len(staged) :
        /\ staged[j].import_id = row.import_id
        /\ staged[j].plaid_transaction_id = row.external_id}

\* C1: a commit_import call that returns, called again with the same arguments
\* and nothing in between, returns again, inserts nothing, reports as skipped
\* duplicates the rows the first call inserted or skipped, and leaves the
\* ledger as the first call left it.  Stated for the repeated call the caller
\* made, and for every pair of calls that can be made from the state.
C1_SecondCommitIsNoOp ==
    /\ lastCommit.again =>
            /\ lastCommit.ok
            /\ lastCommit.inserted = 0
            /\ lastCommit.skipped_duplicates = lastCommit.first
    /\ \A k \in 1..nImports, ids \in RowIdChoices, ss \in StatusChoices :
            LET Second(r1, r2) ==
                    /\ r2.ok
                    /\ r2.inserted = 0
                    /\ r2.skipped_duplicates = r1.inserted + r1.skipped_duplicates
                    /\ r2.ledger = r1.ledger
                First(r1) ==
                    r1.ok => Second(r1, commit_import(r1.ledger, staged, accounts, k, ids, ss, 0))
            IN  First(commit_import(ledger, staged, accounts, k, ids, ss, 0))

\* A repeated call was made after a call that had inserted rows
C1_Witness ==
    /\ lastCommit.again
    /\ lastCommit.ok
    /\ lastCommit.first > 0
    /\ Len(ledger) > 0

\* C2: every row a commit_import call inserts comes from a staging row whose
\* status is ready or approved
C2_OnlyReadyOrApproved ==
    [][\A i \in NewLedgerRows :
          \E j \in StagedSources(ledger'[i]) : staged[j].status \in {"ready", "approved"}]_vars

\* C3: the ledger never holds both a live row made from a pending record and a
\* live row made from the posted record that carries its id as pending link
C3_OneRowPerCharge ==
    \A p, q \in 1..Len(staged) :
        staged[q].plaid_pending_transaction_id = staged[p].plaid_transaction_id =>
            ~\E i, j \in 1..Len(ledger) :
                /\ ~ledger[i].is_deleted /\ ~ledger[j].is_deleted
                /\ ledger[i].external_id = staged[p].plaid_transaction_id
                /\ ledger[j].external_id = staged[q].plaid_transaction_id

\* C4: when an import has staged a row with a pending link, every staging row
\* whose id is that link is superseded, with reason replaced_by_posted
C4_PendingSuperseded ==
    [][ImportStep =>
          \A q \in NewStagedRows :
              staged'[q].plaid_pending_transaction_id # NoId =>
                  \A p \in 1..Len(staged') :
                      staged'[p].plaid_transaction_id = staged'[q].plaid_pending_transaction_id =>
                          /\ staged'[p].status = "superseded"
                          /\ staged'[p].exclude_reason = "replaced_by_posted"]_vars

\* C5: a row commit_import inserts from a staging row of amount a is an expense
\* of amount -|a| when a > 0, and an income of amount |a| when a < 0
C5_SignConvention ==
    [][\A i \in NewLedgerRows :
          /\ StagedSources(ledger'[i]) # {}
          /\ \A j \in StagedSources(ledger'[i]) :
                LET a == staged[j].amount
                IN  /\ a > 0 => (ledger'[i].txn_type = "expense" /\ ledger'[i].amount = -Abs(a))
                    /\ a < 0 => (ledger'[i].txn_type = "income" /\ ledger'[i].amount = Abs(a))]_vars

\* The ledger holds an expense made from an outflow and an income made from an
\* inflow
C5_Witness ==
    \E i, j \in 1..Len(ledger) :
        /\ ledger[i].txn_type = "expense" /\ ledger[i].amount < 0
        /\ ledger[j].txn_type = "income" /\ ledger[j].amount > 0
        /\ \E p, q \in 1..Len(staged) :
              /\ staged[p].plaid_transaction_id = ledger[i].external_id /\ staged[p].amount > 0
              /\ staged[q].plaid_transaction_id = ledger[j].external_id /\ staged[q].amount < 0

\* C8: a commit_import call that raises, while processing a row or at the final
\* commit, leaves the ledger as it was before the call
C8_FailedCommitWritesNothing ==
    [][lastCommit'.called /\ ~lastCommit'.ok => ledger' = ledger]_vars

\* A call raised after it had added rows to its session
C8_Witness == lastCommit.called /\ ~lastCommit.ok /\ lastCommit.partial

\* C10: a record staged while a ledger row has its date, its absolute amount
\* and its normalized description is staged as duplicate.  Stated for the
\* records no exclusion rule matches, which is less than the claim says.
C10_DuplicateOnIngestion ==
    [][ImportStep =>
          \A k \in NewStagedRows :
              (/\ ~should_exclude(staged'[k].raw_json)
               /\ \E i \in 1..Len(ledger) :
                  /\ ledger[i].posted_date = staged'[k].date
                  /\ Abs(ledger[i].amount) = Abs(staged'[k].amount)
                  /\ ledger[i].description_norm = normalize_description(staged'[k].name))
              => staged'[k].status = "duplicate"]_vars

\* C6: when an EXACT rule and a CONTAINS rule both match the input,
\* apply_rules_to_transaction returns the category of an EXACT rule that
\* matches, whatever the priorities and the order of creation.  (The claim's
\* order EXACT, CONTAINS, REGEX, priority, creation implies this.)
C6_ExactBeforeContains ==
    probe.asked =>
        LET hits == {i \in 1..Len(rules) :
                        matches_rule_with_fields(probe.merchant_norm, EmptyText, rules[i])}
            exact == {i \in hits : rules[i].rule_type = "EXACT"}
            contains == {i \in hits : rules[i].rule_type = "CONTAINS"}
        IN  exact # {} /\ contains # {} =>
                probe.result[1] \in {rules[i].category_id : i \in exact}

\* C7: the persisted cursor of the item changes only in the step that ends a
\* sync session with db.commit(): it becomes the next_cursor of the page that
\* had has_more false, in the same step that makes the session's staging rows
\* durable; a session that ends by a failed fetch, by staging raising or by
\* cancellation leaves it at its value before the session
C7_CursorOnlyOnCommit ==
    [][/\ itemCursor' # itemCursor =>
            /\ sess.pc = "staging" /\ sess'.pc = "idle" /\ sess'.outcome = "done"
            /\ itemCursor' = sess.next_cursor
            /\ itemCursor' = sess.start + sess.pages
            /\ nImports' = nImports + 1
       /\ (sess.pc # "idle" /\ sess'.pc = "idle" /\ sess'.outcome # "done") =>
            /\ itemCursor' = sess.start
            /\ staged' = staged]_vars

\* After a session that moved the cursor, a session fetched a page and failed
C7_Witness ==
    /\ itemCursor > 0
    /\ sess.pc = "idle"
    /\ sess.outcome \in {"failed", "cancelled"}
    /\ sess.pages > 0
    /\ sess.start = itemCursor

\* The records C11 is about: the coarse category hint is in the exclusion set,
\* or the name, in upper case, contains the payment-received text
ExclusionCase(tx) ==
    \/ tx.pf_primary \in {"TRANSFER", "LOAN_PAYMENTS", "BANK_FEES_ATM_FEES"}
    \/ Contains(UpperText(tx.name), PAYMENT_RECEIVED)

\* C11: every row an import stages from such a record has status excluded, an
\* exclude_reason and no suggested category, and the summary of the import
\* counts these rows under excluded and none of them under ready or
\* needs_category
C11_ExcludedAtStaging ==
    [][ImportStep /\ lastImport'.called =>
          LET hit == {k \in NewStagedRows : ExclusionCase(staged'[k].raw_json)}
          IN  /\ \A k \in hit :
                    /\ staged'[k].status = "excluded"
                    /\ staged'[k].exclude_reason # "NONE"
                    /\ staged'[k].suggested_category_id = NoCat
              /\ lastImport'.summary.excluded = Cardinality(hit)
              /\ lastImport'.summary.ready + lastImport'.summary.needs_category
                    <= Cardinality(NewStagedRows \ hit)]_vars

\* One import staged a transfer and a payment received, both excluded
C11_Witness ==
    /\ lastImport.called
    /\ lastImport.summary.excluded = 2
    /\ \E i, j \in 1..Len(staged) :
          /\ staged[i].raw_json.pf_primary = "TRANSFER" /\ staged[i].status = "excluded"
          /\ staged[j].name = NamePaymentReceived /\ staged[j].status = "excluded"
          /\ staged[j].exclude_reason = "custom_rule"

\* C12: a _plaid_with_retry call makes at most 3 attempts; an attempt that
\* returns ends the call with the result; a failed attempt is followed by
\* another only when the error is transient; a non-retryable error on the
\* first attempt ends the call after that one attempt; and a call that ends
\* after a failed attempt ends with the structured error (HTTP 502 carrying the
\* error code), so that every call ends with the result or a structured error
C12_RetryOutcomes ==
    /\ call.attempts <= PlaidRetries
    /\ call.attempts = Len(call.results)
    /\ call.pc = "calling" => call.attempts < PlaidRetries
    /\ \A k \in 1..(Len(call.results) - 1) : call.results[k] \in TransientCodes
    /\ call.pc = "ended" =>
          LET last == call.results[Len(call.results)]
          IN  /\ call.outcome \in {"returned", "http_502"}
              /\ call.outcome = "returned" <=> last = FnReturns
              /\ call.outcome = "http_502" => call.plaid_error = last
              /\ (last \notin TransientCodes \cup {FnReturns} /\ call.attempts > 1) =>
                    call.results[1] \in TransientCodes
              /\ (call.attempts < PlaidRetries /\ last # FnReturns) =>
                    last \notin TransientCodes

\* The categorized ledger rows whose raw merchant and raw description are the
\* name of a staged row, and the newest of them
RawMatches(row) ==
    {i \in 1..Len(ledger) :
        /\ ledger[i].category_id # NoCat
        /\ ledger[i].merchant_raw = row.name
        /\ ledger[i].description_raw = row.name}

NewestRawMatches(row) ==
    {i \in RawMatches(row) :
        \A j \in RawMatches(row) : ledger[j].posted_date <= ledger[i].posted_date}

\* C13: a row an import stages (and suggests a category for) while the ledger
\* holds categorized rows with its raw merchant and raw description gets the
\* category of a newest such row
C13_RawHistoryFirst ==
    [][ImportStep =>
          \A k \in NewStagedRows :
              (/\ staged'[k].status \notin {"excluded", "superseded"}
               /\ RawMatches(staged'[k]) # {})
              => staged'[k].suggested_category_id \in
                    {ledger[i].category_id : i \in NewestRawMatches(staged'[k])}]_vars

\* The charges of the concrete case: six consecutive months, category Streaming
ConsecutiveStreaming(txns) ==
    /\ \A i \in 1..6 : txns[i].date[1] = i
    /\ txns[1].category = "Streaming"

\* C14: for six charges 15.99 x 3, 17.99 x 3 of one merchant in six consecutive
\* months, on day 5 +/- 1, category Streaming, the detector returns exactly one
\* record with months_count 6, monthly_amount 17.99 and exactly one price
\* change, from 15.99 to 17.99
C14_PriceChangeCase ==
    (probe.asked /\ ConsecutiveStreaming(probe.transactions))
    => /\ Len(probe.result) = 1
       /\ probe.result[1].months_count = 6
       /\ probe.result[1].monthly_amount = 1799
       /\ Len(probe.result[1].price_changes) = 1
       /\ probe.result[1].price_changes[1].from = 1599
       /\ probe.result[1].price_changes[1].to = 1799

\* The text a call hashes: the normalized merchant, or else the description
HashText(x) ==
    IF x.merchant_norm \notin {NoText, EmptyText} THEN x.merchant_norm
    ELSE IF x.description_raw \notin {NoText, EmptyText} THEN x.description_raw
    ELSE EmptyText

\* The number of the arguments (account, date, amount, text) two calls differ in
HashDifferences(x, y) ==
    B2I(x.account_id # y.account_id) + B2I(x.posted_date # y.posted_date)
        + B2I(x.amount # y.amount) + B2I(HashText(x) # HashText(y))

\* C15 as stated: calls with identical (account, date, amount, text) return the
\* same digest, and calls that differ in exactly one of them return different
\* digests
C15_HashAsStated ==
    probe.asked =>
        /\ HashDifferences(probe.first, probe.second) = 0
              => probe.result[1] = probe.result[2]
        /\ HashDifferences(probe.first, probe.second) = 1
              => probe.result[1] # probe.result[2]

\* C15: calls with identical (account, date, amount, text) return the same
\* digest, and calls whose amounts have at most two decimals and that differ in
\* exactly one of the four return different digests
C15_HashDeterministic ==
    probe.asked =>
        /\ HashDifferences(probe.first, probe.second) = 0
              => probe.result[1] = probe.result[2]
        /\ (/\ HashDifferences(probe.first, probe.second) = 1
            /\ probe.first.amount % 10 = 0
            /\ probe.second.amount % 10 = 0)
              => probe.result[1] # probe.result[2]

C15_Witness ==
    /\ probe.asked
    /\ HashDifferences(probe.first, probe.second) = 1
    /\ probe.first.posted_date # probe.second.posted_date
    /\ probe.first.amount = -10
    /\ probe.result[1] # probe.result[2]

\* C16: a MERCHANT rule is applied to a transaction iff its pattern matches the
\* merchant, whatever the description; a DESCRIPTION rule iff its description
\* pattern matches the description, whatever the merchant (empty or absent
\* included); a PAIR rule iff both match
C16_FieldScope ==
    probe.asked =>
        LET Applied(rule) ==
                (probe.result[1] = rule.category_id)
                <=> CASE rule.fields = "MERCHANT" ->
                            matches_pattern(probe.merchant_norm, rule.pattern, rule.rule_type)
                      [] rule.fields = "DESCRIPTION" ->
                            matches_pattern(probe.description_norm, rule.desc_pattern,
                                            rule.rule_type)
                      [] rule.fields = "PAIR" ->
                            /\ matches_pattern(probe.merchant_norm, rule.pattern,
                                               rule.rule_type)
                            /\ matches_pattern(probe.description_norm, rule.desc_pattern,
                                               rule.rule_type)
        IN  Applied(rules[1])

\* C17: matches_pattern answers every call; an EXACT rule matches iff the text
\* equals the pattern, a CONTAINS rule iff the pattern is a substring of the
\* text, a REGEX rule iff the pattern is found in the text, and a REGEX pattern
\* that does not compile matches nothing
C17_PatternMatchTotal ==
    probe.asked =>
        /\ probe.result \in BOOLEAN
        /\ probe.result <=>
              /\ probe.text # NoText
              /\ CASE probe.rule_type = "EXACT" -> probe.text = probe.pattern
                   [] probe.rule_type = "CONTAINS" -> Contains(probe.text, probe.pattern)
                   [] probe.rule_type = "REGEX" ->
                        /\ RegexCompiles(probe.pattern)
                        /\ RegexSearch(probe.pattern, probe.text)

\* C18: when a cursor sync has completed, every ledger row whose external id
\* the delta reported removed is flagged is_deleted, no row has left the
\* ledger, and no other row has changed
C18_RemovedSoftDeleted ==
    [][(/\ nImports' = nImports + 1
        /\ lastImport'.called
        /\ lastImport'.mode = "sync")
       => /\ Len(ledger') = Len(ledger)
          /\ \A i \in 1..Len(ledger) :
                IF ledger[i].external_id \in Range(lastImport'.removed)
                THEN ledger'[i] = [ledger[i] EXCEPT !.is_deleted = TRUE]
                ELSE ledger'[i] = ledger[i]]_vars

C20_NormalizeMerchant ==
    probe.asked =>
        LET Empty(t) == t \in {NoText, EmptyText}
            Chosen(raw) ==
                /\ probe.result = normalize_merchant(raw, NoText)
                /\ (probe.result = NoText) <=> Empty(raw)
        IN  Chosen(IF Empty(probe.merchant_raw) THEN probe.description_raw
                   ELSE probe.merchant_raw)

\* Two staged rows of a selection that denote one transaction: the same external
\* id, or the same account, date, amount and content hash
StagedTwins(sel) ==
    \E i \in 1..Len(sel), j \in 1..Len(sel) :
        /\ i < j
        /\ \/ sel[i].plaid_transaction_id = sel[j].plaid_transaction_id
           \/ /\ sel[i].account_id = sel[j].account_id
              /\ sel[i].date = sel[j].date
              /\ sel[i].amount = sel[j].amount
              /\ sel[i].hash_key = sel[j].hash_key

\* C21: a commit_import call whose selection holds two staged rows of one
\* transaction completes without error, counts a skipped duplicate, and leaves
\* exactly one ledger row for each external id selected
C21_TwinsInOneCommit ==
    [][\A k \in 1..MaxImports, ids \in RowIdChoices, ss \in StatusChoices :
          (/\ CommitImportWatched(k, ids, ss, 0)
           /\ StagedTwins(CommitSelection(staged, k, ids, ss)))
          => LET Settled(sel) ==
                     \A i \in 1..Len(sel) :
                         Cardinality({n \in 1..Len(ledger') :
                             ledger'[n].external_id = sel[i].plaid_transaction_id}) = 1
             IN  /\ lastCommit'.ok
                 /\ lastCommit'.skipped_duplicates >= 1
                 /\ Settled(CommitSelection(staged, k, ids, ss))]_vars

\* C22: a record the duplicate check of staging classifies as duplicate is
\* stored with status duplicate when the import has finished, whether or not a
\* category is found for it
C22_DuplicateStaysDuplicate ==
    [][ImportStep =>
          \A k \in NewStagedRows :
              determine_status(staged'[k].raw_json, ledger) = "duplicate"
              => staged'[k].status = "duplicate"]_vars

\* C23: a staged row with status ready has a category
C23_ReadyHasCategory ==
    \A i \in 1..Len(staged) :
        staged[i].status = "ready" => staged[i].suggested_category_id # NoCat

\* C24: every ledger row of type expense has an amount of zero or less, every
\* row of type income an amount of zero or more
C24_SignConvention ==
    \A i \in 1..Len(ledger) :
        /\ ledger[i].txn_type = "expense" => ledger[i].amount <= 0
        /\ ledger[i].txn_type = "income" => ledger[i].amount >= 0

\* C28: for every row of an expense sheet whose date and amount parse and whose
\* content hash the ledger does not hold, _process_expense_sheet inserts exactly
\* one ledger row of type expense with amount -|amount| and the category of the
\* row's label, and the rows counted as inserted are the rows added
C28_ExpenseSheetInserts ==
    [][\A rows \in SeqsUpTo(SheetRows, 2) \ {<<>>} :
          ProcessExpenseSheet(rows) =>
              /\ \A k \in 1..Len(rows) :
                    (/\ rows[k].parses
                     /\ ~exists_hash(ledger, ExpenseRow(rows[k], accounts).hash_dedupe))
                    => Cardinality({n \in 1..Len(ledger') :
                          /\ ledger'[n].hash_dedupe = ExpenseRow(rows[k], accounts).hash_dedupe
                          /\ ledger'[n].txn_type = "expense"
                          /\ ledger'[n].amount = -Abs(rows[k].amount)
                          /\ ledger'[n].category_id = rows[k].l1}) = 1
              /\ probe'.counts.inserted = Len(ledger') - Len(ledger)]_vars

\* C25: the summary an import returns counts, for each status, the staged rows
\* of that import that have the status when staging has finished, and its total
\* is the number of rows the import staged
C25_SummaryCounts ==
    [][ImportStep =>
          LET mine == {i \in 1..Len(staged') : staged'[i].import_id = nImports'}
          IN  /\ lastImport'.summary.total = Cardinality(mine)
              /\ \A s \in {"ready", "needs_category", "excluded", "duplicate", "superseded"} :
                    lastImport'.summary[s]
                        = Cardinality({i \in mine : staged'[i].status = s})]_vars

\* C26: when import_transactions_sync has moved the cursor past a delta, every
\* added or modified record of the delta is a staged row of that import, in
\* some status, or the total the import returns counts it
C26_FetchedIsStaged ==
    [][\A txs \in SeqsUpTo({RawInflow}, MaxStaged - Len(staged)), rm \in RemovedLists,
         f \in AccountFilters, w \in SyncWindows :
          (ImportTransactionsSync(txs, rm, f, w, "asc") /\ itemCursor' # itemCursor) =>
              \/ lastImport'.summary.total = Len(txs)
              \/ \A k \in 1..Len(txs) :
                    \E i \in NewStagedRows :
                        /\ staged'[i].import_id = nImports'
                        /\ staged'[i].plaid_transaction_id = txs[k].transaction_id]_vars

\* Staged rows i and j carry the same merchant name and the same name
SamePair(i, j) ==
    /\ staged[i].merchant_name = staged[j].merchant_name
    /\ staged[i].name = staged[j].name

C29_TerminalStatus ==
    [][\A i \in 1..Len(staged) :
          staged[i].status \in {"duplicate", "superseded"}
          => staged'[i].status = staged[i].status]_vars

\* The month start that follows d in the calendar
NextMonth(d) == IF d[2] = 12 THEN <<d[1] + 1, 1>> ELSE <<d[1], d[2] + 1>>

\* C30: for a strictly increasing list of n month starts the index ranges
\* _find_consecutive_runs returns partition 0..n-1 in order, inside a range each
\* month is the calendar month after the one before it, and across a boundary
\* between two ranges it is not; for the empty list the result is empty
C30_RunsPartition ==
    probe.asked =>
        LET ms == probe.months
            n == Len(ms)
            R == probe.result
        IN  IF n = 0 THEN R = <<>>
            ELSE /\ Len(R) >= 1
                 /\ R[1][1] = 0
                 /\ R[Len(R)][2] = n - 1
                 /\ \A k \in 1..Len(R) : R[k][1] <= R[k][2]
                 /\ \A k \in 1..(Len(R) - 1) : R[k + 1][1] = R[k][2] + 1
                 /\ \A k \in 1..Len(R) : \A i \in R[k][1]..(R[k][2] - 1) :
                        ms[i + 2] = NextMonth(ms[i + 1])
                 /\ \A k \in 1..(Len(R) - 1) :
                        ms[R[k + 1][1] + 1] # NextMonth(ms[R[k][2] + 1])

\* The runs of a list with a gap were found, one of them across the turn of the
\* year
C30_Witness ==
    /\ probe.asked
    /\ Len(probe.result) >= 2
    /\ \E k \in 1..Len(probe.result) :
          /\ probe.result[k][2] - probe.result[k][1] >= 2
          /\ probe.months[probe.result[k][1] + 1][1] # probe.months[probe.result[k][2] + 1][1]

\* Two rows the unique constraints of the ledger do not admit together
SameTransaction(a, b) ==
    \/ a.external_id = b.external_id
    \/ /\ a.account_id = b.account_id
       /\ a.posted_date = b.posted_date
       /\ a.amount = b.amount
       /\ a.hash_dedupe = b.hash_dedupe

\* The call of p added no two rows that exclude each other
NoClashWithin(p) ==
    \A i, j \in 1..Len(procs[p].added) :
        i # j => ~SameTransaction(procs[p].added[i], procs[p].added[j])

\* C9: when two commit_import calls have both added a row for the same
\* transaction and both have ended, both have returned (the one that lost on
\* the unique constraint counted a skipped duplicate) and the ledger holds one
\* row for it
C9_LoserSkipsDuplicate ==
    \A p, q \in Procs :
        \A i \in 1..Len(procs[p].added), j \in 1..Len(procs[q].added) :
            (/\ p # q
             /\ procs[p].pc \in {"done", "raised"}
             /\ procs[q].pc \in {"done", "raised"}
             /\ NoClashWithin(p) /\ NoClashWithin(q)
             /\ SameTransaction(procs[p].added[i], procs[q].added[j]))
            => /\ procs[p].pc = "done"
               /\ procs[q].pc = "done"
               /\ Cardinality({k \in 1..Len(ledger) :
                                  ledger[k].external_id = procs[p].added[i].external_id}) = 1

====
